---- MODULE Spec2Model ----
(***************************************************************************)
(* Model of the checkpointed embedding builder of                          *)
(* RAG_Implementation/embed_chunks.py.                                      *)
(*                                                                         *)
(* The builder is one sequential process (main) working on four files:     *)
(* the checkpoint record (embedding_checkpoint.json), the checkpoint       *)
(* matrix (embedding_checkpoint.npy), the index (binning_faiss.index) and  *)
(* the metadata file (binning_docs.jsonl).  The process can be killed at   *)
(* any point; the files survive, the process state does not.  A later run  *)
(* starts from the files it finds.                                         *)
(*                                                                         *)
(* A vector is modelled by the chunk it was computed for and by whether it *)
(* is the zero placeholder: [c |-> chunk index, z |-> is placeholder].     *)
(* Chunk indices are 0-based as in the source; position j of the Python    *)
(* list is element j + 1 of the TLA+ sequence.                             *)
(*                                                                         *)
(* The second part models GPTClient.ask of GPT_PromptSet/gpt_client.py,    *)
(* under its own specification SpecAsk.  A text is a sequence of items: a  *)
(* positive number is a word, Space and Newline are whitespace and Dots is *)
(* the marker "...".                                                       *)
(*                                                                         *)
(* The third part models is_binning_question of                            *)
(* RAG_Implementation/intent_classifier.py under SpecClassify.  A query is *)
(* a sequence of characters, each a one-character string; "dotless_i" is   *)
(* the letter U+0131, whose upper case is "I".                             *)
(*                                                                         *)
(* The fourth part models System_KG_Implementation/SCT_fusion_query.py     *)
(* (SpecFusion) and build_faiss_index.py (SpecIndexBuild).  An embedding   *)
(* is a pair of integers on one of the axes, so that its L2 norm is an     *)
(* integer; a score is the inner product of two normalized embeddings.     *)
(***************************************************************************)
EXTENDS Integers, Sequences, FiniteSets, TLC

\* Largest number of chunks in the input file.
MaxChunks == 4

\* Largest number of times the process is killed in one behaviour.
MaxKills == 2

\* Period of the checkpoint, `(i + 1) % 10 == 0` in the source.  The period
\* is scaled down so that several checkpoints fit in MaxChunks chunks.
CheckpointEvery == 2

\* Period of the unconditional refresh, `i % 500 == 0` in the source, scaled
\* down for the same reason.
RefreshEvery == 3

\* MAX_CALLS_MIN, requests per minute
MAX_CALLS_MIN == 15

\* SLEEP = 60/MAX_CALLS_MIN + 0.5 seconds, in tenths of a second
SLEEP == (600 \div MAX_CALLS_MIN) + 5

\* `time.sleep(2)` of the BadRequestError handler, in tenths of a second
RetrySleep == 20

VARIABLES
    n_chunks,     \* number of lines of IN_FILE (fixed for the whole behaviour)
    kills,        \* number of times the process was killed so far
    ckpt_json,    \* CHECKPOINT_FILE
    ckpt_npy,     \* CHECKPOINT_FILE.with_suffix(".npy")
    out_index,    \* OUT_INDEX
    out_docs,     \* OUT_DOCS
    pc,           \* position of the builder process
    i,            \* loop variable of main
    start_index,  \* main's start_index
    vectors,      \* main's vectors
    loaded_count, \* len(vectors) as returned by load_checkpoint
    first_err,    \* outcome of the first request for chunk i
    last_err,     \* outcome of the latest request for chunk i
    attempts,     \* embed_text calls made for chunk i
    h_refresh,    \* refresh_client calls made in the handler for chunk i
    requested,    \* chunk indices for which embed_text was called in this run
    slept,        \* time.sleep time (tenths of a second) since the latest
                  \* embed_text call of this run; -1 before the first call
    since_refresh, \* embed_text calls since the latest refresh_client()
    saved_index,  \* last_index of the latest checkpoint that save_checkpoint
                  \* finished writing since the index and the metadata were
                  \* last written; -1 when there is none
    ask_pc,       \* position of a GPTClient.ask call
    max_retries,  \* ask's max_retries
    attempt,      \* ask's attempt
    messages,     \* ask's messages
    calls,        \* the chat.completions.create calls of the ask call so far
    result,       \* what ask returned
    waits,        \* the time.sleep calls of the ask call so far: the attempt
                  \* that failed before each and its seconds
    cls_pc,       \* position of the caller of is_binning_question
    cls_query,    \* the question it was called with
    cls_result,   \* what it returned
    cls_variant,  \* the same question with some letters in the other case
    cls_variant_result, \* what is_binning_question returned for it
    sct_file,     \* semantic_conditions.jsonl: the embedding of each record;
                  \* record j (0-based) has label j and context j
    tie_rule,     \* how the installed faiss orders results of equal score
    fus_pc,       \* position of the process that imports SCT_fusion_query
    sct_index,    \* the module's `index`: the rows added to it, in order
    fus_question, \* fused_reasoning's question
    is_bin,       \* fused_reasoning's is_bin
    qv,           \* retrieve_sct_context's qv, normalized
    sct,          \* fused_reasoning's sct
    rag_called,   \* retrieve_binning_chunks was called for this question
    rag_text,     \* fused_reasoning's rag_text
    prompt,       \* fused_reasoning's prompt
    fus_result,   \* how fused_reasoning ended: the tuple it returned, or
                  \* the exception that left it
    fus_log,      \* the calls made for the current question, in order
    prev_search,  \* qv and results of the previous question's index search
    ui_status,    \* HTTP status of get_response's answer, 0 before it
    dr_pc,        \* position of the build_faiss_index script
    dr_n,         \* number of lines of DR_corpus.jsonl
    dr_i,         \* build_faiss_index's i (0-based start of the batch)
    dr_attempt,   \* build_faiss_index's attempt
    dr_vectors,   \* build_faiss_index's vectors
    dr_index_file, \* DR_faiss.index
    dr_ids_file,  \* DR_ids.npy
    cmp_pc,       \* position of a caller of compress_sct
    cmp_retrieved, \* the list compress_sct was called with
    cmp_out,      \* what compress_sct returned
    fu_pc,        \* position of get_response's follow-up parsing
    fu_line,      \* a line of followup_text
    fu_list,      \* followup_list after the line
    sg_pc,        \* position of the SCT_semantic_graph script
    sg_remote,    \* version of DigitalReference.ttl on GitHub
    sg_hash,      \* DigitalReference.hash: the version it is the hash of,
                  \* 0 when the file does not exist
    sg_file,      \* semantic_conditions.jsonl: the entities with a record
    sg_done,      \* done_labels
    sg_k,         \* position of the loop over entities
    sg_tried      \* the entities safe_embed was called for since the
                  \* latest update was detected

run_env == <<n_chunks, kills, saved_index>>
disk == <<ckpt_json, ckpt_npy, out_index, out_docs>>
timing == <<slept, since_refresh>>
locals == <<i, start_index, vectors, loaded_count, first_err, last_err,
            attempts, h_refresh, requested, slept, since_refresh>>
builder_vars == <<n_chunks, kills, ckpt_json, ckpt_npy, out_index, out_docs,
                  pc, i, start_index, vectors, loaded_count, first_err,
                  last_err, attempts, h_refresh, requested, slept,
                  since_refresh, saved_index>>
ask_vars == <<ask_pc, max_retries, attempt, messages, calls, result, waits>>
cls_vars == <<cls_pc, cls_query, cls_result, cls_variant, cls_variant_result>>
fus_env == <<sct_file, tie_rule>>
fus_request == <<fus_question, is_bin, qv, sct, rag_called, rag_text, prompt,
                 fus_result, fus_log>>
fus_vars == <<sct_file, tie_rule, fus_pc, sct_index, fus_question, is_bin,
              qv,
              sct, rag_called, rag_text, prompt, fus_result, fus_log,
              prev_search, ui_status>>
dr_vars == <<dr_pc, dr_n, dr_i, dr_attempt, dr_vectors, dr_index_file,
             dr_ids_file>>
cmp_vars == <<cmp_pc, cmp_retrieved, cmp_out>>
fu_vars == <<fu_pc, fu_line, fu_list>>
sg_vars == <<sg_pc, sg_remote, sg_hash, sg_file, sg_done, sg_k, sg_tried>>
other_than_builder == <<ask_vars, cls_vars, fus_vars, dr_vars, cmp_vars,
    fu_vars, sg_vars>>
other_than_ask == <<builder_vars, cls_vars, fus_vars, dr_vars, cmp_vars,
    fu_vars, sg_vars>>
other_than_cls == <<builder_vars, ask_vars, fus_vars, dr_vars, cmp_vars,
    fu_vars, sg_vars>>
other_than_fus == <<builder_vars, ask_vars, cls_vars, dr_vars, cmp_vars,
    fu_vars, sg_vars>>
other_than_dr == <<builder_vars, ask_vars, cls_vars, fus_vars, cmp_vars,
    fu_vars, sg_vars>>
other_than_fus_dr == <<builder_vars, ask_vars, cls_vars, cmp_vars,
    fu_vars, sg_vars>>
other_than_fu ==
    <<builder_vars, ask_vars, cls_vars, fus_vars, dr_vars, cmp_vars, sg_vars>>
other_than_sg ==
    <<builder_vars, ask_vars, cls_vars, fus_vars, dr_vars, cmp_vars, fu_vars>>
other_than_cmp == <<builder_vars, ask_vars, cls_vars, fus_vars, dr_vars,
    fu_vars, sg_vars>>
vars ==
    <<builder_vars, ask_vars, cls_vars, fus_vars, dr_vars, cmp_vars, fu_vars,
      sg_vars>>

----------------------------------------------------------------------------
\* Values

Absent == [st |-> "absent"]

\* embed_text(d["text"]) for chunk c, on success
Embedding(c) == [c |-> c, z |-> FALSE]

\* np.zeros(4096) appended while chunk c is handled
Placeholder(c) == [c |-> c, z |-> TRUE]

\* faiss.normalize_L2 on one row: a non-zero row gets norm 1, a zero row
\* stays zero
NormalizeRow(v) == [c |-> v.c, unit |-> ~v.z]

NormalizeL2(m) == [k \in 1..Len(m) |-> NormalizeRow(m[k])]

\* Outcomes of one embed_text call
Outcomes == {"ok", "bad", "other"}

\* ask has not returned anything
NoResult == [kind |-> "none", text |-> <<>>, n |-> 0]

\* fused_reasoning has neither returned nor raised
NoFusResult == [kind |-> "none", answer |-> <<>>, sct_text |-> <<>>,
                rag_text |-> <<>>, is_bin |-> FALSE]

\* no index search has been made before
NoSearch == [qv |-> <<>>, results |-> <<>>]

\* positions of a run of the process
Running == {"import", "load", "read_docs", "loop", "periodic_refresh",
            "embed", "handler_refresh", "retry", "save_json_open",
            "save_json_dump", "save_npy_open", "save_npy_write", "sleep",
            "cleanup_json", "cleanup_npy", "write_index", "write_docs"}

\* positions in which no process runs: never started or killed ("off"),
\* main returned ("done", "returned"), or the process ended with an
\* exception raised by the import, by load_checkpoint, by refresh_client
\* inside the loop, or by np.vstack
Ended == {"off", "done", "returned", "import_failed", "load_failed",
          "refresh_failed", "index_failed"}


----------------------------------------------------------------------------
\* Pure parts of the source

\* Variant: the chunk at start_index itself is not skipped
Skips_Lt(idx, start) == idx < start

\* Variant: the chunk after start_index is skipped too
Skips_Next(idx, start) == idx <= start + 1

\* `if i <= start_index: continue`
Skips(idx, start) == idx <= start

\* Variant: the period is counted from chunk 1
NeedsRefresh_Shifted(idx) == idx > 0 /\ (idx + 1) % RefreshEvery = 0

\* `if i > 0 and i % 500 == 0`
NeedsRefresh(idx) == idx > 0 /\ idx % RefreshEvery = 0

\* `if (i + 1) % 10 == 0`
DueCheckpoint(idx) == (idx + 1) % CheckpointEvery = 0

\* Variant: the record names the next index to process
CheckpointRecord_NextIndex(index, vecs) ==
    [st |-> "ok", last_index |-> index + 1, vectors_count |-> Len(vecs)]

\* the record save_checkpoint(index, vectors) dumps
CheckpointRecord(index, vecs) ==
    [st |-> "ok", last_index |-> index, vectors_count |-> Len(vecs)]

\* the matrix save_checkpoint(index, vectors) saves, np.vstack(vectors)
CheckpointMatrix(vecs) == [st |-> "ok", matrix |-> vecs]

\* load_checkpoint(): the pair it returns, or the exception of json.load on
\* a truncated record / np.load on a truncated matrix
load_checkpoint ==
    IF ckpt_json.st = "absent"
    THEN [raised |-> FALSE, last_index |-> -1, vectors |-> <<>>]
    ELSE IF ckpt_json.st = "empty"
    THEN [raised |-> TRUE, last_index |-> -1, vectors |-> <<>>]
    ELSE IF ckpt_npy.st = "absent"
    THEN [raised |-> FALSE, last_index |-> -1, vectors |-> <<>>]
    ELSE IF ckpt_npy.st = "partial"
    THEN [raised |-> TRUE, last_index |-> -1, vectors |-> <<>>]
    ELSE [raised |-> FALSE, last_index |-> ckpt_json.last_index,
          vectors |-> ckpt_npy.matrix]

\* where main goes after a vector was appended for chunk idx
AfterAppend(idx) == IF DueCheckpoint(idx) THEN "save_json_open" ELSE "sleep"

----------------------------------------------------------------------------
\* State

ResetLocals ==
    /\ i' = 0
    /\ start_index' = -1
    /\ vectors' = <<>>
    /\ loaded_count' = 0
    /\ first_err' = "none"
    /\ last_err' = "none"
    /\ attempts' = 0
    /\ h_refresh' = 0
    /\ requested' = {}
    /\ slept' = -1
    /\ since_refresh' = 0

\* the builder has not run yet
BuilderInit ==
    /\ n_chunks \in 0..MaxChunks
    /\ kills = 0
    /\ ckpt_json = Absent
    /\ ckpt_npy = Absent
    /\ out_index = Absent
    /\ out_docs = Absent
    /\ pc = "off"
    /\ i = 0
    /\ start_index = -1
    /\ vectors = <<>>
    /\ loaded_count = 0
    /\ first_err = "none"
    /\ last_err = "none"
    /\ attempts = 0
    /\ h_refresh = 0
    /\ requested = {}
    /\ slept = -1
    /\ since_refresh = 0
    /\ saved_index = -1

\* no ask call has been made
AskIdle ==
    /\ ask_pc = "idle"
    /\ max_retries = 0
    /\ attempt = 0
    /\ messages = <<>>
    /\ calls = <<>>
    /\ result = NoResult
    /\ waits = <<>>

\* is_binning_question has not been called
ClsIdle ==
    /\ cls_pc = "idle"
    /\ cls_query = <<>>
    /\ cls_result = FALSE
    /\ cls_variant = <<>>
    /\ cls_variant_result = FALSE

\* fused_reasoning has not been called, or was just called
RequestIdle ==
    /\ fus_question = <<>>
    /\ is_bin = FALSE
    /\ qv = <<>>
    /\ sct = <<>>
    /\ rag_called = FALSE
    /\ rag_text = <<>>
    /\ prompt = <<>>
    /\ fus_result = NoFusResult
    /\ fus_log = <<>>

\* SCT_fusion_query has not been imported
FusionUnloaded ==
    /\ fus_pc = "unloaded"
    /\ sct_index = <<>>
    /\ RequestIdle
    /\ prev_search = NoSearch
    /\ ui_status = 0

\* build_faiss_index has not run
DrOff ==
    /\ dr_pc = "off"
    /\ dr_i = 0
    /\ dr_attempt = 0
    /\ dr_vectors = <<>>
    /\ dr_index_file = Absent
    /\ dr_ids_file = Absent

\* SCT_semantic_graph was never run: no hash file, no output file
SgOff ==
    /\ sg_pc = "off"
    /\ sg_remote = 1
    /\ sg_hash = 0
    /\ sg_file = {}
    /\ sg_done = {}
    /\ sg_k = 0
    /\ sg_tried = {}

\* compress_sct has not been called, and no follow-up line was parsed
CmpIdle ==
    /\ cmp_pc = "idle"
    /\ cmp_retrieved = <<>>
    /\ cmp_out = <<>>
    /\ fu_pc = "idle"
    /\ fu_line = <<>>
    /\ fu_list = <<>>
    /\ SgOff

Init ==
    /\ CmpIdle
    /\ BuilderInit
    /\ AskIdle
    /\ ClsIdle
    /\ sct_file = <<>>
    /\ tie_rule = "insertion"
    /\ FusionUnloaded
    /\ dr_n = 0
    /\ DrOff

----------------------------------------------------------------------------
\* The process: start, kill

\* `python embed_chunks.py`
Start ==
    /\ pc \in Ended
    /\ pc' = "import"
    /\ ResetLocals
    /\ UNCHANGED <<run_env, disk>>
    /\ UNCHANGED other_than_builder

\* the process is killed; the files stay as they are
Kill ==
    /\ pc \in Running
    /\ kills < MaxKills
    /\ kills' = kills + 1
    /\ pc' = "off"
    /\ ResetLocals
    /\ UNCHANGED <<n_chunks, saved_index, disk>>
    /\ UNCHANGED other_than_builder

----------------------------------------------------------------------------
\* Module import: refresh_client() at module level

ImportRefreshOk ==
    /\ pc = "import"
    /\ pc' = "load"
    /\ since_refresh' = 0
    /\ UNCHANGED <<run_env, disk, i, start_index, vectors, loaded_count,
                   first_err, last_err, attempts, h_refresh, requested,
                   slept>>
    /\ UNCHANGED other_than_builder

\* get_token() or openai.OpenAI(...) raises: the import fails
ImportRefreshFail ==
    /\ pc = "import"
    /\ pc' = "import_failed"
    /\ UNCHANGED <<run_env, disk, locals>>
    /\ UNCHANGED other_than_builder

----------------------------------------------------------------------------
\* main: load_checkpoint and the input file

LoadCheckpoint ==
    /\ pc = "load"
    /\ LET r == load_checkpoint IN
        IF r.raised
        THEN /\ pc' = "load_failed"
             /\ UNCHANGED <<start_index, vectors, loaded_count>>
        ELSE /\ pc' = "read_docs"
             /\ start_index' = r.last_index
             /\ vectors' = r.vectors
             /\ loaded_count' = Len(r.vectors)
    /\ UNCHANGED <<run_env, disk, timing, i, first_err, last_err, attempts,
                   h_refresh, requested>>
    /\ UNCHANGED other_than_builder

\* Variant: the input is not validated
ReadDocs_NoCheck ==
    /\ pc = "read_docs"
    /\ pc' = "loop"
    /\ i' = 0
    /\ UNCHANGED <<run_env, disk, timing, start_index, vectors, loaded_count,
                   first_err, last_err, attempts, h_refresh, requested>>
    /\ UNCHANGED other_than_builder

\* reads IN_FILE; `if len(docs) == 0: return`
ReadDocs ==
    /\ pc = "read_docs"
    /\ pc' = IF n_chunks = 0 THEN "returned" ELSE "loop"
    /\ i' = 0
    /\ UNCHANGED <<run_env, disk, timing, start_index, vectors, loaded_count,
                   first_err, last_err, attempts, h_refresh, requested>>
    /\ UNCHANGED other_than_builder

----------------------------------------------------------------------------
\* main: the embedding loop

\* `for i, d in enumerate(docs)` is exhausted
LoopExit ==
    /\ pc = "loop"
    /\ i = n_chunks
    /\ pc' = "cleanup_json"
    /\ UNCHANGED <<run_env, disk, locals>>
    /\ UNCHANGED other_than_builder

\* `if i <= start_index: continue`
LoopSkip ==
    /\ pc = "loop"
    /\ i < n_chunks
    /\ Skips(i, start_index)
    /\ i' = i + 1
    /\ UNCHANGED <<run_env, disk, timing, pc, start_index, vectors,
                   loaded_count,
                   first_err, last_err, attempts, h_refresh, requested>>
    /\ UNCHANGED other_than_builder

\* an iteration for a chunk that is not skipped, up to the periodic refresh
LoopBody ==
    /\ pc = "loop"
    /\ i < n_chunks
    /\ ~Skips(i, start_index)
    /\ pc' = IF NeedsRefresh(i) THEN "periodic_refresh" ELSE "embed"
    /\ first_err' = "none"
    /\ last_err' = "none"
    /\ attempts' = 0
    /\ h_refresh' = 0
    /\ UNCHANGED <<run_env, disk, timing, i, start_index, vectors, loaded_count,
                   requested>>
    /\ UNCHANGED other_than_builder

\* `refresh_client()` every RefreshEvery chunks
PeriodicRefreshOk ==
    /\ pc = "periodic_refresh"
    /\ pc' = "embed"
    /\ since_refresh' = 0
    /\ UNCHANGED <<run_env, disk, i, start_index, vectors, loaded_count,
                   first_err, last_err, attempts, h_refresh, requested,
                   slept>>
    /\ UNCHANGED other_than_builder

\* the refresh raises outside of any try block: main ends with the exception
PeriodicRefreshFail ==
    /\ pc = "periodic_refresh"
    /\ pc' = "refresh_failed"
    /\ UNCHANGED <<run_env, disk, locals>>
    /\ UNCHANGED other_than_builder

\* `v = embed_text(d["text"]); vectors.append(v)`
EmbedOk ==
    /\ pc = "embed"
    /\ attempts' = attempts + 1
    /\ requested' = requested \cup {i}
    /\ first_err' = "ok"
    /\ last_err' = "ok"
    /\ vectors' = Append(vectors, Embedding(i))
    /\ pc' = AfterAppend(i)
    /\ slept' = 0
    /\ since_refresh' = since_refresh + 1
    /\ UNCHANGED <<run_env, disk, i, start_index, loaded_count, h_refresh>>
    /\ UNCHANGED other_than_builder

\* Variant: a BadRequestError is degraded to a placeholder at once
EmbedBadRequest_NoRetry ==
    /\ pc = "embed"
    /\ attempts' = attempts + 1
    /\ requested' = requested \cup {i}
    /\ first_err' = "bad"
    /\ last_err' = "bad"
    /\ vectors' = Append(vectors, Placeholder(i))
    /\ pc' = AfterAppend(i)
    /\ slept' = 0
    /\ since_refresh' = since_refresh + 1
    /\ UNCHANGED <<run_env, disk, i, start_index, loaded_count, h_refresh>>
    /\ UNCHANGED other_than_builder

\* embed_text raises openai.BadRequestError
EmbedBadRequest ==
    /\ pc = "embed"
    /\ attempts' = attempts + 1
    /\ requested' = requested \cup {i}
    /\ first_err' = "bad"
    /\ last_err' = "bad"
    /\ pc' = "handler_refresh"
    /\ slept' = 0
    /\ since_refresh' = since_refresh + 1
    /\ UNCHANGED <<run_env, disk, i, start_index, vectors, loaded_count,
                   h_refresh>>
    /\ UNCHANGED other_than_builder

\* embed_text raises any other exception: placeholder, no retry
EmbedOtherError ==
    /\ pc = "embed"
    /\ attempts' = attempts + 1
    /\ requested' = requested \cup {i}
    /\ first_err' = "other"
    /\ last_err' = "other"
    /\ vectors' = Append(vectors, Placeholder(i))
    /\ pc' = AfterAppend(i)
    /\ slept' = 0
    /\ since_refresh' = since_refresh + 1
    /\ UNCHANGED <<run_env, disk, i, start_index, loaded_count, h_refresh>>
    /\ UNCHANGED other_than_builder

\* handler of BadRequestError: `refresh_client(); time.sleep(2)`
HandlerRefreshOk ==
    /\ pc = "handler_refresh"
    /\ h_refresh' = h_refresh + 1
    /\ since_refresh' = 0
    /\ slept' = slept + RetrySleep
    /\ pc' = "retry"
    /\ UNCHANGED <<run_env, disk, i, start_index, vectors, loaded_count,
                   first_err, last_err, attempts, requested>>
    /\ UNCHANGED other_than_builder

\* the refresh raises inside the except block: main ends with the exception
HandlerRefreshFail ==
    /\ pc = "handler_refresh"
    /\ h_refresh' = h_refresh + 1
    /\ pc' = "refresh_failed"
    /\ UNCHANGED <<run_env, disk, timing, i, start_index, vectors, loaded_count,
                   first_err, last_err, attempts, requested>>
    /\ UNCHANGED other_than_builder

\* the retry succeeds
RetryOk ==
    /\ pc = "retry"
    /\ attempts' = attempts + 1
    /\ requested' = requested \cup {i}
    /\ last_err' = "ok"
    /\ vectors' = Append(vectors, Embedding(i))
    /\ pc' = AfterAppend(i)
    /\ slept' = 0
    /\ since_refresh' = since_refresh + 1
    /\ UNCHANGED <<run_env, disk, i, start_index, loaded_count, first_err,
                   h_refresh>>
    /\ UNCHANGED other_than_builder

\* Variant: a failed retry goes back to the refresh instead of giving up
RetryFail_Again ==
    /\ pc = "retry"
    /\ \E o \in {"bad", "other"} : last_err' = o
    /\ attempts' = attempts + 1
    /\ requested' = requested \cup {i}
    /\ pc' = "handler_refresh"
    /\ slept' = 0
    /\ since_refresh' = since_refresh + 1
    /\ UNCHANGED <<run_env, disk, i, start_index, vectors, loaded_count,
                   first_err, h_refresh>>
    /\ UNCHANGED other_than_builder

\* the retry raises (`except Exception`): placeholder
RetryFail ==
    /\ pc = "retry"
    /\ \E o \in {"bad", "other"} : last_err' = o
    /\ attempts' = attempts + 1
    /\ requested' = requested \cup {i}
    /\ vectors' = Append(vectors, Placeholder(i))
    /\ pc' = AfterAppend(i)
    /\ slept' = 0
    /\ since_refresh' = since_refresh + 1
    /\ UNCHANGED <<run_env, disk, i, start_index, loaded_count, first_err,
                   h_refresh>>
    /\ UNCHANGED other_than_builder

----------------------------------------------------------------------------
\* save_checkpoint(i, vectors), one file operation per step

\* `open(CHECKPOINT_FILE, "w")` truncates the record
SaveJsonOpen ==
    /\ pc = "save_json_open"
    /\ ckpt_json' = [st |-> "empty"]
    /\ pc' = "save_json_dump"
    /\ UNCHANGED <<run_env, ckpt_npy, out_index, out_docs, locals>>
    /\ UNCHANGED other_than_builder

\* `json.dump(checkpoint, f)` and the close of the file; `if vectors:`
SaveJsonDump ==
    /\ pc = "save_json_dump"
    /\ ckpt_json' = CheckpointRecord(i, vectors)
    /\ pc' = IF vectors # <<>> THEN "save_npy_open" ELSE "sleep"
    /\ saved_index' = IF vectors # <<>> THEN saved_index ELSE i
    /\ UNCHANGED <<n_chunks, kills, ckpt_npy, out_index, out_docs, locals>>
    /\ UNCHANGED other_than_builder

\* np.save opens the matrix file for writing: the old matrix is gone
SaveNpyOpen ==
    /\ pc = "save_npy_open"
    /\ ckpt_npy' = [st |-> "partial"]
    /\ pc' = "save_npy_write"
    /\ UNCHANGED <<run_env, ckpt_json, out_index, out_docs, locals>>
    /\ UNCHANGED other_than_builder

\* np.save has written the whole matrix
SaveNpyWrite ==
    /\ pc = "save_npy_write"
    /\ ckpt_npy' = CheckpointMatrix(vectors)
    /\ saved_index' = i
    /\ pc' = "sleep"
    /\ UNCHANGED <<n_chunks, kills, ckpt_json, out_index, out_docs, locals>>
    /\ UNCHANGED other_than_builder

\* `time.sleep(SLEEP)` and the next iteration
Sleep ==
    /\ pc = "sleep"
    /\ i' = i + 1
    /\ slept' = slept + SLEEP
    /\ pc' = "loop"
    /\ UNCHANGED <<run_env, disk, since_refresh, start_index, vectors,
                   loaded_count,
                   first_err, last_err, attempts, h_refresh, requested>>
    /\ UNCHANGED other_than_builder

----------------------------------------------------------------------------
\* main: cleanup and index creation

\* `if CHECKPOINT_FILE.exists(): CHECKPOINT_FILE.unlink()`
CleanupJson ==
    /\ pc = "cleanup_json"
    /\ ckpt_json' = Absent
    /\ pc' = "cleanup_npy"
    /\ UNCHANGED <<run_env, ckpt_npy, out_index, out_docs, locals>>
    /\ UNCHANGED other_than_builder

\* Variant: the matrix file is left behind
CleanupNpy_Keep ==
    /\ pc = "cleanup_npy"
    /\ pc' = "write_index"
    /\ UNCHANGED <<run_env, disk, locals>>
    /\ UNCHANGED other_than_builder

\* the same for the matrix file
CleanupNpy ==
    /\ pc = "cleanup_npy"
    /\ ckpt_npy' = Absent
    /\ pc' = "write_index"
    /\ UNCHANGED <<run_env, ckpt_json, out_index, out_docs, locals>>
    /\ UNCHANGED other_than_builder

\* np.vstack, faiss.normalize_L2, index.add, faiss.write_index;
\* np.vstack of an empty list raises
WriteIndex ==
    /\ pc = "write_index"
    /\ IF vectors = <<>>
       THEN pc' = "index_failed" /\ UNCHANGED out_index
       ELSE /\ out_index' = [st |-> "ok", rows |-> NormalizeL2(vectors)]
            /\ pc' = "write_docs"
    /\ UNCHANGED <<run_env, ckpt_json, ckpt_npy, out_docs, locals>>
    /\ UNCHANGED other_than_builder

\* writes one line per chunk to OUT_DOCS
WriteDocs ==
    /\ pc = "write_docs"
    /\ out_docs' = [st |-> "ok", count |-> n_chunks]
    /\ saved_index' = -1
    /\ pc' = "done"
    /\ UNCHANGED <<n_chunks, kills, ckpt_json, ckpt_npy, out_index, locals>>
    /\ UNCHANGED other_than_builder

----------------------------------------------------------------------------

Next ==
    \/ Start
    \/ Kill
    \/ ImportRefreshOk
    \/ ImportRefreshFail
    \/ LoadCheckpoint
    \/ ReadDocs
    \/ LoopExit
    \/ LoopSkip
    \/ LoopBody
    \/ PeriodicRefreshOk
    \/ PeriodicRefreshFail
    \/ EmbedOk
    \/ EmbedBadRequest
    \/ EmbedOtherError
    \/ HandlerRefreshOk
    \/ HandlerRefreshFail
    \/ RetryOk
    \/ RetryFail
    \/ SaveJsonOpen
    \/ SaveJsonDump
    \/ SaveNpyOpen
    \/ SaveNpyWrite
    \/ Sleep
    \/ CleanupJson
    \/ CleanupNpy
    \/ WriteIndex
    \/ WriteDocs
Spec == Init /\ [][Next]_vars

TypeOK ==
    /\ n_chunks \in 0..MaxChunks
    /\ pc \in Running \cup Ended
    /\ i \in 0..MaxChunks
    /\ start_index \in -1..MaxChunks
    /\ attempts \in 0..2

----------------------------------------------------------------------------
\* Vocabulary of the properties

\* the loop has completed
PostLoop == pc \in {"cleanup_json", "cleanup_npy", "write_index",
                    "write_docs", "done", "index_failed"}

\* a vector has just been appended for chunk i
PostAppend == pc \in {"save_json_open", "save_json_dump", "save_npy_open",
                      "save_npy_write", "sleep"}

\* main holds the result of load_checkpoint
Loaded == pc \in (Running \cup {"done", "returned", "refresh_failed",
                                "index_failed"}) \ {"import", "load"}

\* position j holds a vector of chunk j, for the first n positions
AlignedUpTo(vecs, n) ==
    /\ Len(vecs) >= n
    /\ \A k \in 1..n : vecs[k].c = k - 1

\* vecs is one vector per chunk, each at its chunk's position
Aligned(vecs, n) == Len(vecs) = n /\ AlignedUpTo(vecs, n)

\* the pair load_checkpoint returned was last_index = j with the j + 1
\* vectors of chunks 0..j (or no progress: -1 and no vectors)
LoadedAligned ==
    /\ loaded_count = start_index + 1
    /\ AlignedUpTo(vectors, loaded_count)

LastVector == vectors[Len(vectors)]

----------------------------------------------------------------------------
\* C1: whatever point the process was killed at, the pair that
\* load_checkpoint returns on the next run holds exactly last_index + 1
\* vectors, vector j being the one of chunk j.
C1_LoadReturnsAlignedPair ==
    pc = "read_docs" =>
        /\ Len(vectors) = start_index + 1
        /\ AlignedUpTo(vectors, Len(vectors))

\* C2: a checkpoint that save_checkpoint has finished writing, in a fresh
\* run or in a run resumed from a pair with last_index + 1 vectors, records
\* last_index = i, vectors_count = i + 1 and a matrix of i + 1 vectors.
C2_CheckpointCountsMatch ==
    (pc = "sleep" /\ DueCheckpoint(i) /\ loaded_count = start_index + 1) =>
        /\ ckpt_json.st = "ok"
        /\ ckpt_json.last_index = i
        /\ ckpt_json.vectors_count = ckpt_json.last_index + 1
        /\ ckpt_npy.st = "ok"
        /\ Len(ckpt_npy.matrix) = ckpt_json.last_index + 1

\* a resumed run has finished writing a checkpoint
C2_Witness ==
    /\ pc = "sleep"
    /\ DueCheckpoint(i)
    /\ start_index >= 0
    /\ loaded_count = start_index + 1
    /\ ckpt_json.st = "ok"
    /\ ckpt_json.last_index > start_index

\* C3: a run resumed from a checkpoint with last_index = j and the j + 1
\* vectors of chunks 0..j ends its loop, like a run that starts with no
\* progress, with one vector per chunk, position j holding the vector of
\* chunk j.
C3_ResumeEqualsUninterrupted ==
    (PostLoop /\ LoadedAligned) => Aligned(vectors, n_chunks)

\* a resumed run that had chunks left to embed has completed its loop
C3_Witness ==
    /\ PostLoop
    /\ LoadedAligned
    /\ start_index >= 0
    /\ start_index + 1 < n_chunks
    /\ Aligned(vectors, n_chunks)

\* C4: when the loop completes there is one vector per chunk, each at its
\* chunk's position (placeholders included), whatever the outcomes of the
\* requests were.
C4_OneVectorPerChunk ==
    PostLoop => Aligned(vectors, n_chunks)

\* C5: requests are issued for chunks in increasing index order, none for
\* a chunk at or before start_index, and when the loop completes every
\* chunk after start_index has been requested.
C5_RequestOrder ==
    /\ [](Loaded => \A c \in requested : c > start_index)
    /\ [](PostLoop =>
            requested = {c \in 0..(n_chunks - 1) : c > start_index})
    /\ [][\A c \in requested' \ requested :
            /\ \A d \in requested : d < c
            /\ \A d \in (start_index + 1)..(c - 1) : d \in requested]_vars

\* a resumed run has completed its loop after requesting the chunks left
C5_Witness ==
    /\ PostLoop
    /\ start_index >= 0
    /\ requested # {}
    /\ requested = (start_index + 1)..(n_chunks - 1)

\* C6: once a checkpoint has been written completely, and until the index
\* and the metadata are written, a next run resumes at or after the
\* last_index of that checkpoint.
C6_ProgressNotLost ==
    pc = "read_docs" => start_index >= saved_index

\* C7: a run in which every embedding request failed does not complete
\* normally and writes no index.
C7_AllFailedAborts ==
    ~ /\ pc \in {"write_docs", "done"}
      /\ requested # {}
      /\ \A k \in (loaded_count + 1)..Len(vectors) : vectors[k].z

\* C8: the run never ends with the exception of a session refresh made
\* while a chunk is handled.
C8_RefreshFailureContained ==
    ~(pc = "refresh_failed" /\ i < n_chunks)

\* C9: a chunk gets at most two requests, the second one only after a
\* first one failed with BadRequestError and after exactly one refresh; a
\* chunk whose first request failed with BadRequestError is finished with
\* exactly two requests and one refresh, by the embedding of the retry or,
\* if the retry failed, by a placeholder; no chunk is requested in two
\* iterations.
C9_OneRefreshOneRetry ==
    /\ attempts <= 2
    /\ h_refresh <= 1
    /\ pc = "embed" => (attempts = 0 /\ i \notin requested)
    /\ pc = "handler_refresh" =>
            (first_err = "bad" /\ attempts = 1 /\ h_refresh = 0)
    /\ pc = "retry" =>
            (first_err = "bad" /\ attempts = 1 /\ h_refresh = 1
                /\ i \in requested)
    /\ (PostAppend /\ first_err = "bad") =>
            /\ attempts = 2
            /\ h_refresh = 1
            /\ LastVector.c = i
            /\ LastVector.z <=> last_err # "ok"
    /\ (PostAppend /\ first_err # "bad") => (attempts = 1 /\ h_refresh = 0)

\* the retry after a BadRequestError failed and a placeholder was inserted
C9_Witness ==
    /\ PostAppend
    /\ first_err = "bad"
    /\ last_err # "ok"
    /\ attempts = 2
    /\ h_refresh = 1
    /\ LastVector = Placeholder(i)

----------------------------------------------------------------------------
\* the step is an embed_text call
IsRequest == pc \in {"embed", "retry"} /\ attempts' = attempts + 1

\* C11: an embed_text call that follows another call of the run is made
\* after at least SLEEP of time.sleep since that call.
C11_RequestSpacing ==
    [][IsRequest => (slept = -1 \/ slept >= SLEEP)]_vars

\* C12: with an empty input file the run gets no further than the input
\* check: no embed_text call is made and no checkpoint, index or metadata
\* file is written.
C12_EmptyInputStops ==
    n_chunks = 0 =>
        /\ pc \in {"off", "import", "import_failed", "load", "read_docs",
                   "returned"}
        /\ requested = {}
        /\ attempts = 0
        /\ ckpt_json = Absent
        /\ ckpt_npy = Absent
        /\ out_index = Absent
        /\ out_docs = Absent

\* main has returned from the empty-input check
C12_Witness == n_chunks = 0 /\ pc = "returned"

\* the last chunk is covered by the loaded checkpoint or got its vector in
\* this run
LastChunkDone ==
    \/ n_chunks - 1 <= start_index
    \/ /\ (n_chunks - 1) \in requested
       /\ Len(vectors) > loaded_count
       /\ LastVector.c = n_chunks - 1

\* C13: once the run is past the cleanup, and so when it has completed,
\* neither checkpoint file exists; a checkpoint file is deleted only after
\* the loop has completed with the last chunk done.
C13_CheckpointDeletedAtCompletion ==
    /\ [](pc \in {"write_index", "write_docs", "done"} =>
            (ckpt_json = Absent /\ ckpt_npy = Absent))
    /\ [][((ckpt_json # Absent /\ ckpt_json' = Absent)
            \/ (ckpt_npy # Absent /\ ckpt_npy' = Absent)) =>
                (i = n_chunks /\ LastChunkDone)]_vars

\* a checkpoint had been written and both files are gone after the loop
C13_Witness ==
    /\ pc = "write_index"
    /\ saved_index >= 0
    /\ Aligned(vectors, n_chunks)
    /\ ckpt_json = Absent
    /\ ckpt_npy = Absent

\* C14: the chunk at every index i > 0 with i % RefreshEvery = 0 is
\* requested right after a refresh, and never more than RefreshEvery
\* embed_text calls are made without a refresh in between.
C14_PeriodicRefresh ==
    /\ since_refresh <= RefreshEvery
    /\ (pc = "embed" /\ i > 0 /\ i % RefreshEvery = 0) => since_refresh = 0

\* the refresh was made before such a chunk in a run with a failed chunk
C14_Witness ==
    /\ pc = "embed"
    /\ i > 0
    /\ i % RefreshEvery = 0
    /\ since_refresh = 0
    /\ \E k \in 1..Len(vectors) : vectors[k].z /\ vectors[k].c \in requested

----------------------------------------------------------------------------
\* GPTClient.ask (src/GPT_PromptSet/gpt_client.py)
\*
\* A text is a sequence of items: a positive number is a token of visible
\* characters, Space and Newline are whitespace, Dots is the string "...".
\* Neighbouring visible items form one whitespace-delimited word.

\* the largest max_retries a caller passes, and the most words by which an
\* answer exceeds the limit
MaxRetries == 3
MaxExcess == 2

\* the word limit, 200 in the source (lines 251 and 264), scaled down
WordLimit == 3

Space == 0
Newline == -1
Dots == -2

IsWs(x) == x \in {Space, Newline}

\* str.strip(): without the leading and trailing whitespace
Strip(s) ==
    IF \A k \in 1..Len(s) : IsWs(s[k]) THEN <<>>
    ELSE SubSeq(s,
                CHOOSE k \in 1..Len(s) :
                    ~IsWs(s[k]) /\ \A j \in 1..(k - 1) : IsWs(s[j]),
                CHOOSE k \in 1..Len(s) :
                    ~IsWs(s[k]) /\ \A j \in (k + 1)..Len(s) : IsWs(s[j]))

\* the first position from k on that is not whitespace (Len(s) + 1 if none)
\* and the last position of the word that starts at k
WordStart(s, k) ==
    CHOOSE b \in k..(Len(s) + 1) :
        /\ \A j \in k..(b - 1) : IsWs(s[j])
        /\ b = Len(s) + 1 \/ ~IsWs(s[b])
WordEnd(s, k) ==
    CHOOSE e \in k..Len(s) :
        /\ \A j \in k..e : ~IsWs(s[j])
        /\ e = Len(s) \/ IsWs(s[e + 1])

\* the words of s from position k on
RECURSIVE SplitFrom(_, _)
SplitFrom(s, k) ==
    LET b == WordStart(s, k)
        e == WordEnd(s, b)
    IN IF b > Len(s) THEN <<>>
       ELSE <<SubSeq(s, b, e)>> \o SplitFrom(s, e + 1)

\* str.split(): the words of s in order, runs of whitespace being one
\* separator and whitespace at either end giving no empty word
Split(s) == SplitFrom(s, 1)

\* " ".join(words)
RECURSIVE Join(_)
Join(words) ==
    IF words = <<>> THEN <<>>
    ELSE IF Len(words) = 1 THEN words[1]
    ELSE Join(SubSeq(words, 1, Len(words) - 1))
             \o <<Space>> \o words[Len(words)]

\* len(text.split())
WordCount(s) == Len(Split(s))

\* words[:200], with the scaled limit
FirstWords(words) ==
    SubSeq(words, 1, IF Len(words) < WordLimit THEN Len(words) ELSE WordLimit)

Truncate_SpaceMarker(text) == Join(FirstWords(Split(text))) \o <<Space, Dots>>

\* " ".join(words[:200]) + "...", with the scaled limit
Truncate(text) == Join(FirstWords(Split(text))) \o <<Dots>>

\* a text of n one-token words, sep between two words and pad at both ends
Text(n, sep, pad) ==
    LET w == 1 + Len(sep)
    IN pad \o [p \in 1..(n * w - Len(sep)) |->
                  IF (p - 1) % w = 0 THEN ((p - 1) \div w) + 1
                  ELSE sep[(p - 1) % w]] \o pad

\* the contents the generation service answers with
Layouts ==
    {[sep |-> <<Space>>, pad |-> <<>>],
     [sep |-> <<Newline, Space>>, pad |-> <<Space>>],
     [sep |-> <<Space, Space>>, pad |-> <<Newline>>]}
Answers ==
    {Text(n, l.sep, l.pad) : n \in 1..(WordLimit + MaxExcess), l \in Layouts}

Message(role, kind, text, count) ==
    [role |-> role, kind |-> kind, text |-> text,
     limit |-> IF kind = "shorten" THEN WordLimit ELSE 0, count |-> count]

\* the two messages ask starts from: the rules and the query
InitialMessages ==
    <<Message("system", "rules", <<>>, 0), Message("user", "query", <<>>, 0)>>

RetryMessages_Reset(msgs, text, word_count) ==
    SubSeq(msgs, 1, 2) \o <<Message("assistant", "text", text, 0),
                            Message("user", "shorten", <<>>, word_count)>>

\* the two appends before `continue`
RetryMessages(msgs, text, word_count) ==
    msgs \o <<Message("assistant", "text", text, 0),
              Message("user", "shorten", <<>>, word_count)>>

\* the argument of time.sleep in ask's except branch
AskSleep == 1

\* RETRY_BACKOFF
RETRY_BACKOFF == 2

\* range(1, max_retries + 1)
AttemptRange == 1..max_retries

\* the for statement taking its next value, or falling through to the
\* return after the loop
ForNext ==
    IF attempt + 1 \in AttemptRange
    THEN /\ attempt' = attempt + 1
         /\ ask_pc' = "attempt"
         /\ result' = result
    ELSE /\ attempt' = attempt
         /\ ask_pc' = "returned"
         /\ result' = [kind |-> "no_response", text |-> <<>>, n |-> 0]

Call(outcome, text, count) ==
    [attempt |-> attempt, messages |-> messages, outcome |-> outcome,
     text |-> text, count |-> count]

\* a caller invokes ask(query, max_retries); the loop enters attempt 1
AskCall ==
    /\ ask_pc \in {"idle", "returned"}
    /\ max_retries' \in 1..MaxRetries
    /\ messages' = InitialMessages
    /\ calls' = <<>>
    /\ attempt' = 1
    /\ ask_pc' = "attempt"
    /\ result' = NoResult
    /\ waits' = <<>>
    /\ UNCHANGED other_than_ask

AttemptAnswer_TruncateEarly ==
    /\ ask_pc = "attempt"
    /\ \E raw \in Answers :
        LET text == Strip(raw)
            word_count == WordCount(text)
        IN /\ calls' = Append(calls,
                 Call(IF word_count > WordLimit THEN "over" ELSE "ok",
                      text, word_count))
           /\ ask_pc' = "returned"
           /\ result' = IF word_count > WordLimit
                        THEN [kind |-> "truncated",
                              text |-> Truncate(text), n |-> 0]
                        ELSE [kind |-> "answer", text |-> text, n |-> 0]
           /\ UNCHANGED <<messages, attempt>>
    /\ UNCHANGED <<max_retries, waits>>
    /\ UNCHANGED other_than_ask

\* create() returns a completion: strip, count the words, then ask for a
\* shorter answer, truncate, or return the text as it is
AttemptAnswer ==
    /\ ask_pc = "attempt"
    /\ \E raw \in Answers :
        LET text == Strip(raw)
            word_count == WordCount(text)
        IN /\ calls' = Append(calls,
                 Call(IF word_count > WordLimit THEN "over" ELSE "ok",
                      text, word_count))
           /\ IF word_count > WordLimit
              THEN IF attempt < max_retries
                   THEN /\ messages' = RetryMessages(messages, text, word_count)
                        /\ ForNext
                   ELSE /\ ask_pc' = "returned"
                        /\ result' = [kind |-> "truncated",
                                      text |-> Truncate(text), n |-> 0]
                        /\ UNCHANGED <<messages, attempt>>
              ELSE /\ ask_pc' = "returned"
                   /\ result' = [kind |-> "answer", text |-> text, n |-> 0]
                   /\ UNCHANGED <<messages, attempt>>
    /\ UNCHANGED <<max_retries, waits>>
    /\ UNCHANGED other_than_ask

AttemptError_Logged ==
    /\ ask_pc = "attempt"
    /\ calls' = Append(calls, Call("error", <<>>, 0))
    /\ messages' = Append(messages, Message("user", "shorten", <<>>, 0))
    /\ IF attempt >= max_retries
       THEN /\ ask_pc' = "returned"
            /\ result' = [kind |-> "api_error", text |-> <<>>,
                          n |-> max_retries]
       ELSE /\ ask_pc' = "wait"
            /\ UNCHANGED result
    /\ UNCHANGED <<max_retries, attempt, waits>>
    /\ UNCHANGED other_than_ask

AttemptError_Raise ==
    /\ ask_pc = "attempt"
    /\ calls' = Append(calls, Call("error", <<>>, 0))
    /\ IF attempt >= max_retries
       THEN /\ ask_pc' = "returned"
            /\ result' = [kind |-> "raised", text |-> <<>>, n |-> 0]
       ELSE /\ ask_pc' = "wait"
            /\ UNCHANGED result
    /\ UNCHANGED <<max_retries, attempt, messages, waits>>
    /\ UNCHANGED other_than_ask

\* the try block raises an Exception (timeout, API error, a completion
\* without content): the error string on the last attempt, else the wait
AttemptError ==
    /\ ask_pc = "attempt"
    /\ calls' = Append(calls, Call("error", <<>>, 0))
    /\ IF attempt >= max_retries
       THEN /\ ask_pc' = "returned"
            /\ result' = [kind |-> "api_error", text |-> <<>>,
                          n |-> max_retries]
       ELSE /\ ask_pc' = "wait"
            /\ UNCHANGED result
    /\ UNCHANGED <<max_retries, attempt, messages, waits>>
    /\ UNCHANGED other_than_ask

Wait_SameAttempt ==
    /\ ask_pc = "wait"
    /\ ask_pc' = "attempt"
    /\ waits' = Append(waits, [after |-> attempt, seconds |-> AskSleep])
    /\ UNCHANGED <<attempt, result>>
    /\ UNCHANGED <<max_retries, messages, calls>>
    /\ UNCHANGED other_than_ask

\* time.sleep(1), then the next attempt
Wait ==
    /\ ask_pc = "wait"
    /\ waits' = Append(waits, [after |-> attempt, seconds |-> AskSleep])
    /\ ForNext
    /\ UNCHANGED <<max_retries, messages, calls>>
    /\ UNCHANGED other_than_ask

InitAsk == Init /\ n_chunks = 0

NextAsk ==
    \/ AskCall
    \/ AttemptAnswer
    \/ AttemptError
    \/ Wait

SpecAsk == InitAsk /\ [][NextAsk]_vars

\* every step of ask is taken eventually: create() returns or raises within
\* its timeout and the sleep ends
SpecAskFair ==
    /\ SpecAsk
    /\ WF_vars(AttemptAnswer \/ AttemptError)
    /\ WF_vars(Wait)

\* ask has returned to its caller
Returned == ask_pc = "returned"

LastCall == calls[Len(calls)]

\* the result is one of the two error strings
IsErrorString == result.kind \in {"api_error", "no_response"}

\* the number of whitespace items of a text
WsCount(t) == Cardinality({k \in 1..Len(t) : IsWs(t[k])})

\* the assistant and user messages that follow the over-length answer of
\* the call c
Excess(c) ==
    <<[role |-> "assistant", kind |-> "text", text |-> c.text,
       limit |-> 0, count |-> 0],
      [role |-> "user", kind |-> "shorten", text |-> <<>>,
       limit |-> WordLimit, count |-> c.count]>>

----------------------------------------------------------------------------
\* C15: whatever the service answers or fails with, and for every
\* max_retries >= 1, a result of ask that is not an error string has at most
\* WordLimit whitespace-delimited words; when max_retries = 2 and every call
\* is answered with WordLimit + MaxExcess words, the result is at most
\* WordLimit words followed by the marker.
C15_AnswerWithinLimit ==
    Returned =>
        /\ ~IsErrorString => WordCount(result.text) <= WordLimit
        /\ ( /\ max_retries = 2
             /\ \A k \in 1..Len(calls) :
                    /\ calls[k].outcome = "over"
                    /\ calls[k].count = WordLimit + MaxExcess )
           => /\ ~IsErrorString
              /\ result.text # <<>>
              /\ result.text[Len(result.text)] = Dots
              /\ WordCount(SubSeq(result.text, 1, Len(result.text) - 1))
                     <= WordLimit

C15_Witness ==
    /\ Returned
    /\ max_retries = 2
    /\ Len(calls) = 2
    /\ \A k \in 1..2 : calls[k].count = WordLimit + MaxExcess
    /\ result.kind = "truncated"
    /\ WordCount(result.text) = WordLimit

\* C16: once some attempt of ask was answered over the limit, the final
\* result is never an error string, also when a later attempt fails.
C16_OverLengthNeverError ==
    (Returned /\ \E k \in 1..Len(calls) : calls[k].outcome = "over")
        => ~IsErrorString

\* C17: ask issues at most max_retries calls, the k-th call being attempt
\* k whether the calls before it were answered over the limit or failed,
\* and a started ask returns.
C17_BoundedCallsAndTermination ==
    /\ [](/\ Len(calls) <= max_retries
          /\ \A k \in 1..Len(calls) : calls[k].attempt = k)
    /\ (ask_pc \in {"attempt", "wait"}) ~> Returned

C17_Witness ==
    /\ Returned
    /\ max_retries = MaxRetries
    /\ Len(calls) = max_retries
    /\ \E k \in 1..Len(calls) : calls[k].outcome = "over"
    /\ \E k \in 1..Len(calls) : calls[k].outcome = "error"
    /\ result.kind = "answer"

\* C18: ask returns a truncated answer only when the last call was attempt
\* max_retries and its answer has more than WordLimit words; the result is
\* then the first WordLimit words of that answer, one space between two
\* words, followed by the marker.
C18_TruncationOnlyWhenExhausted ==
    (Returned /\ result.kind = "truncated") =>
        LET w == Split(LastCall.text)
            r == Split(result.text)
        IN /\ LastCall.attempt = max_retries
           /\ LastCall.outcome = "over"
           /\ Len(w) > WordLimit
           /\ Len(r) = WordLimit
           /\ \A k \in 1..(WordLimit - 1) : r[k] = w[k]
           /\ r[WordLimit] = w[WordLimit] \o <<Dots>>
           /\ WsCount(result.text) = WordLimit - 1
           /\ \A k \in 1..Len(result.text) : result.text[k] # Newline

C18_Witness ==
    /\ Returned
    /\ result.kind = "truncated"
    /\ max_retries = MaxRetries
    /\ LastCall.count = WordLimit + MaxExcess
    /\ \E k \in 1..Len(LastCall.text) : LastCall.text[k] = Newline

\* C19: when attempt n < max_retries is answered over the limit, the next
\* request carries the messages of attempt n in order, then an assistant
\* message with that answer, then a user message with the limit and the
\* answer's word count; the first request carries the two initial messages.
C19_HistoryExtended ==
    /\ \A n \in 1..Len(calls) :
        /\ n = 1 => calls[n].messages = InitialMessages
        /\ (n < Len(calls) /\ calls[n].outcome = "over") =>
               calls[n + 1].messages = calls[n].messages \o Excess(calls[n])
        /\ (n < Len(calls) /\ calls[n].outcome # "over") =>
               calls[n + 1].messages = calls[n].messages
    /\ (ask_pc = "attempt" /\ calls # <<>> /\ LastCall.outcome = "over") =>
           messages = LastCall.messages \o Excess(LastCall)

C19_Witness ==
    /\ Len(calls) = 3
    /\ calls[1].outcome = "over"
    /\ calls[2].outcome = "over"
    /\ Len(calls[3].messages) = 6
    /\ calls[3].messages[4].count # calls[3].messages[6].count

\* C20: a fault of the generation service never leaves ask otherwise than
\* by a returned string: the error string, which names max_retries, when
\* the attempt that exhausts the budget fails, and an answer in every other
\* case.
C20_FaultsReturnErrorString ==
    /\ ask_pc \in {"idle", "attempt", "wait", "returned"}
    /\ (calls # <<>> /\ LastCall.outcome = "error" /\ ~Returned) =>
           ask_pc \in {"wait", "attempt"} /\ LastCall.attempt < max_retries
    /\ Returned =>
        /\ result.kind \in {"answer", "truncated", "api_error"}
        /\ result.kind = "api_error" <=>
               (LastCall.outcome = "error" /\ LastCall.attempt = max_retries)
        /\ result.kind = "api_error" => result.n = max_retries

C20_Witness ==
    /\ Returned
    /\ result.kind = "api_error"
    /\ max_retries = MaxRetries
    /\ \A k \in 1..Len(calls) : calls[k].outcome = "error"

----------------------------------------------------------------------------
\* is_binning_question (src/RAG_Implementation/intent_classifier.py)

\* Largest number of pieces a generated question is made of.
MaxPieces == 2

LowerLetters ==
    <<"a", "b", "c", "d", "e", "f", "g", "h", "i", "j", "k", "l", "m", "n",
      "o", "p", "q", "r", "s", "t", "u", "v", "w", "x", "y", "z">>
UpperLetters ==
    <<"A", "B", "C", "D", "E", "F", "G", "H", "I", "J", "K", "L", "M", "N",
      "O", "P", "Q", "R", "S", "T", "U", "V", "W", "X", "Y", "Z">>
DigitChars ==
    <<"0", "1", "2", "3", "4", "5", "6", "7", "8", "9">>

LowerSet == {LowerLetters[k] : k \in 1..Len(LowerLetters)}
UpperSet == {UpperLetters[k] : k \in 1..Len(UpperLetters)}
DigitSet == {DigitChars[k] : k \in 1..Len(DigitChars)}

IndexOf(seq, c) == CHOOSE k \in 1..Len(seq) : seq[k] = c

\* str.lower() on one character: "dotless_i" is lower case already
LowerChar_UpperOnlyB(c) == IF c = "B" THEN "b" ELSE c
LowerChar(c) ==
    IF c \in UpperSet THEN LowerLetters[IndexOf(UpperLetters, c)] ELSE c

\* str.upper() on one character: the upper case of "dotless_i" is "I"
UpperChar(c) ==
    IF c \in LowerSet THEN UpperLetters[IndexOf(LowerLetters, c)]
    ELSE IF c = "dotless_i" THEN "I"
    ELSE c

\* the character in the other case
SwapCase(c) == IF c \in UpperSet THEN LowerChar(c) ELSE UpperChar(c)

\* \w of the re module on str: letters, digits and the underscore
IsWordChar(c) ==
    c \in LowerSet \cup UpperSet \cup DigitSet \cup {"dotless_i", "_"}

\* question.lower()
Lower(question) == [k \in 1..Len(question) |-> LowerChar(question[k])]

\* `w in q` for strings
Contains(q, w) ==
    \E p \in 1..(Len(q) - Len(w) + 1) : SubSeq(q, p, p + Len(w) - 1) = w

\* the list `strong`
strong ==
    <<<<"b", "i", "n", "n", "i", "n", "g">>,
      <<"b", "i", "n", " ", "y", "i", "e", "l", "d">>,
      <<"t", "e", "s", "t", " ", "b", "i", "n">>,
      <<"b", "i", "n", "n", "i", "n", "g", " ", "y", "i", "e", "l", "d">>,
      <<"p", "r", "o", "d", "u", "c", "t", " ", "b", "i", "n">>,
      <<"b", "i", "n", " ", "d", "i", "s", "t", "r", "i", "b", "u", "t", "i",
        "o", "n">>>>

\* \b at position p of q, between q[p - 1] and q[p]
Boundary(q, p) ==
    (p > 1 /\ IsWordChar(q[p - 1])) # (p <= Len(q) /\ IsWordChar(q[p]))

\* the alternatives of (?:s|ned|ning)?, in the order the engine tries them
Suffixes == <<<<"s">>, <<"n", "e", "d">>, <<"n", "i", "n", "g">>, <<>>>>

\* bin_pattern matches q at position p
MatchAt_NoLeftBoundary(q, p) ==
    /\ p + 2 <= Len(q)
    /\ SubSeq(q, p, p + 2) = <<"b", "i", "n">>
    /\ \E j \in 1..Len(Suffixes) :
        LET e == p + 3 + Len(Suffixes[j])
        IN /\ e - 1 <= Len(q)
           /\ SubSeq(q, p + 3, e - 1) = Suffixes[j]
           /\ Boundary(q, e)
MatchAt(q, p) ==
    /\ Boundary(q, p)
    /\ p + 2 <= Len(q)
    /\ SubSeq(q, p, p + 2) = <<"b", "i", "n">>
    /\ \E j \in 1..Len(Suffixes) :
        LET e == p + 3 + Len(Suffixes[j])
        IN /\ e - 1 <= Len(q)
           /\ SubSeq(q, p + 3, e - 1) = Suffixes[j]
           /\ Boundary(q, e)

\* re.search(bin_pattern, q) finds a match
Search(q) == \E p \in 1..Len(q) : MatchAt(q, p)

is_binning_question(question) ==
    LET q == Lower(question)
    IN IF \E k \in 1..Len(strong) : Contains(q, strong[k]) THEN TRUE
       ELSE IF Search(q) THEN TRUE
       ELSE FALSE

\* the docstring examples
Example_BinYield ==
    <<"W", "h", "a", "t", " ", "i", "s", " ", "t", "h", "e", " ", "b", "i",
      "n", " ", "y", "i", "e", "l", "d", " ", "f", "o", "r", " ", "p", "r",
      "o", "d", "u", "c", "t", " ", "X", "?">>
Example_Binned ==
    <<"T", "h", "e", " ", "c", "h", "i", "p", "s", " ", "a", "r", "e", " ",
      "b", "i", "n", "n", "e", "d", " ", "i", "n", "t", "o", " ", "c", "a",
      "t", "e", "g", "o", "r", "i", "e", "s">>
Example_Combine ==
    <<"C", "o", "m", "b", "i", "n", "e", " ", "t", "h", "e", " ", "r", "e",
      "s", "u", "l", "t", "s">>
Examples == {Example_BinYield, Example_Binned, Example_Combine}

\* the pieces the generated questions are made of
Pieces ==
    {<<"b", "i", "n">>,
     <<"B", "i", "n">>,
     <<"s">>,
     <<"n", "e", "d">>,
     <<"n", "i", "n", "g">>,
     <<" ">>,
     <<"_">>,
     <<"c", "a">>,
     <<"a", "r", "y">>,
     <<"b", "i", "n", "a", "r", "y">>,
     <<"t", "e", "s", "t", " ">>,
     <<" ", "y", "i", "e", "l", "d">>,
     <<"p", "r", "o", "d", "u", "c", "t", " ">>,
     <<" ", "d", "i", "s", "t", "r", "i", "b", "u", "t", "i", "o", "n">>,
     <<"b", "dotless_i", "n">>}

RECURSIVE Flatten(_)
Flatten(ps) == IF ps = <<>> THEN <<>> ELSE Head(ps) \o Flatten(Tail(ps))

\* the questions is_binning_question is called with
Queries ==
    Examples \cup
    {Flatten(ps) : ps \in UNION {[1..m -> Pieces] : m \in 0..MaxPieces}}

\* question with the letters at positions a..b in the other case
Recase(question, a, b) ==
    [k \in 1..Len(question) |->
        IF a <= k /\ k <= b THEN SwapCase(question[k]) ELSE question[k]]

\* a caller evaluates is_binning_question(question)
ClassifyCall ==
    /\ cls_pc = "idle"
    /\ \E question \in Queries :
        /\ cls_query' = question
        /\ cls_result' = is_binning_question(question)
    /\ cls_pc' = "classified"
    /\ cls_variant' = <<>>
    /\ cls_variant_result' = FALSE
    /\ UNCHANGED other_than_cls

\* a caller evaluates it again for the question with one letter, or the
\* letters of a prefix, in the other case
RecaseCall ==
    /\ cls_pc = "classified"
    /\ \E a \in 1..Len(cls_query) : \E b \in a..Len(cls_query) :
        /\ a = 1 \/ a = b
        /\ cls_variant' = Recase(cls_query, a, b)
        /\ cls_variant_result' =
               is_binning_question(Recase(cls_query, a, b))
    /\ cls_pc' = "recased"
    /\ UNCHANGED <<cls_query, cls_result>>
    /\ UNCHANGED other_than_cls

InitClassify == Init /\ n_chunks = 0

NextClassify ==
    \/ ClassifyCall
    \/ RecaseCall

SpecClassify == InitClassify /\ [][NextClassify]_vars

\* is_binning_question has returned for cls_query
Classified == cls_pc \in {"classified", "recased"}

\* q contains one of the six strong phrases as a substring
HasStrongPhrase(q) ==
    \E a \in 1..Len(q) : \E b \in a..Len(q) :
        \E k \in 1..Len(strong) : SubSeq(q, a, b) = strong[k]

\* the words bin, bins, binned, binning
BinWords ==
    {<<"b", "i", "n">>, <<"b", "i", "n", "s">>,
     <<"b", "i", "n", "n", "e", "d">>,
     <<"b", "i", "n", "n", "i", "n", "g">>}

\* q[a..b] is a whole word of q: word characters with none on either side
IsWholeWord(q, a, b) ==
    /\ \A k \in a..b : IsWordChar(q[k])
    /\ a = 1 \/ ~IsWordChar(q[a - 1])
    /\ b = Len(q) \/ ~IsWordChar(q[b + 1])

\* q contains bin, bins, binned or binning as a whole word
HasBinWord(q) ==
    \E a \in 1..Len(q) : \E b \in a..Len(q) :
        SubSeq(q, a, b) \in BinWords /\ IsWholeWord(q, a, b)

\* every character of q is an ASCII character
IsAscii(q) == \A k \in 1..Len(q) : q[k] # "dotless_i"

----------------------------------------------------------------------------
\* C25: is_binning_question returns True exactly when the lower-cased
\* question contains one of the six strong phrases as a substring or
\* contains bin, bins, binned or binning as a whole word; it returns True
\* for the first two docstring examples and False for 'Combine the results'.
C25_ClassifierExact ==
    Classified =>
        /\ cls_result = ( \/ HasStrongPhrase(Lower(cls_query))
                          \/ HasBinWord(Lower(cls_query)) )
        /\ cls_query \in {Example_BinYield, Example_Binned} => cls_result
        /\ cls_query = Example_Combine => ~cls_result

C25_Witness ==
    /\ Classified
    /\ cls_query = Example_Binned
    /\ cls_result
    /\ ~HasStrongPhrase(Lower(cls_query))

\* C26: for a question in which 'bin' occurs only inside longer words, never
\* as the whole word bin, bins, binned or binning, is_binning_question
\* returns False.
C26_NoFalsePositiveInsideWords ==
    (Classified /\ ~HasBinWord(Lower(cls_query))) => ~cls_result

\* C27: the result for a question equals the result for the question with
\* any of its letters changed to the other case.
C27_CaseInsensitive ==
    cls_pc = "recased" => cls_variant_result = cls_result

\* C27, for questions of ASCII characters
C27_CaseInsensitiveAscii ==
    (cls_pc = "recased" /\ IsAscii(cls_query)) =>
        cls_variant_result = cls_result

C27_Witness ==
    /\ cls_pc = "recased"
    /\ IsAscii(cls_query)
    /\ cls_variant # cls_query
    /\ cls_result
    /\ cls_variant_result
    /\ Lower(cls_variant) # cls_variant

----------------------------------------------------------------------------
\* C28: every vector of a written index has L2 norm 1 after normalization,
\* the vectors recorded as zero placeholders included.
C28_StoredVectorsUnitNorm ==
    out_index.st = "ok" =>
        \A k \in 1..Len(out_index.rows) : out_index.rows[k].unit

----------------------------------------------------------------------------
\* SCT_fusion_query (src/System_KG_Implementation/SCT_fusion_query.py)

\* Largest number of records of semantic_conditions.jsonl.
MaxEntries == 4

\* TOP_K_SCT and TOP_K_RAG
TOP_K_SCT == 3
TOP_K_RAG == 5

\* the score faiss gives to a slot it could not fill (the lowest float)
Lowest == -1000

\* the embeddings the service returns for records and for questions
RawVectors == {<<1, 0>>, <<2, 0>>, <<0, 1>>}
QueryVectors == {<<1, 0>>, <<0, 3>>, <<-2, 0>>}

\* the contents of semantic_conditions.jsonl
SemanticFiles == UNION {[1..n -> RawVectors] : n \in 0..MaxEntries}

Abs(x) == IF x < 0 THEN -x ELSE x

\* the L2 norm of an embedding
L2Norm(v) ==
    CHOOSE r \in 0..(Abs(v[1]) + Abs(v[2])) : r * r = v[1] * v[1] + v[2] * v[2]

\* faiss.normalize_L2 on one row: a zero row is left as it is
NormalizedRow(v) ==
    IF L2Norm(v) = 0 THEN v
    ELSE <<v[1] \div L2Norm(v), v[2] \div L2Norm(v)>>

\* faiss.normalize_L2(matrix)
NormalizedMatrix(m) == [k \in 1..Len(m) |-> NormalizedRow(m[k])]

\* the inner product IndexFlatIP scores with
Dot(u, v) == u[1] * v[1] + u[2] * v[2]

\* result j comes before result m in the output of a search: by decreasing
\* score; the order of equal scores is the library's
ComesBefore(rows, q, rule, j, m) ==
    \/ Dot(rows[j], q) > Dot(rows[m], q)
    \/ /\ Dot(rows[j], q) = Dot(rows[m], q)
       /\ IF rule = "insertion" THEN j < m ELSE j > m

\* index.search(qv, k): the k slots (I[0][p], D[0][p]); a slot beyond the
\* number of rows holds -1 and the lowest score
IndexSearch(rows, q, k, rule) ==
    LET place(j) ==
            1 + Cardinality({m \in 1..Len(rows) :
                                 ComesBefore(rows, q, rule, m, j)})
    IN [p \in 1..k |->
           IF p <= Len(rows)
           THEN LET j == CHOOSE j \in 1..Len(rows) : place(j) = p
                IN [idx |-> j - 1, score |-> Dot(rows[j], q)]
           ELSE [idx |-> -1, score |-> Lowest]]

\* texts are sequences of symbols: a character each, except "subClassOf"
\* (that substring), "nl" (a newline) and a label (the label's characters)
SubClassOf == "subClassOf"

\* " | "
Separator == <<" ", "|", " ">>

\* str(label) for the label of entry j
LabelText(j) == <<"L0", "L1", "L2", "L3", "L4", "L5", "L6">>[j + 1]

\* context_text of entry j of semantic_conditions.jsonl
EntryContext(j) ==
    IF j % 2 = 0 THEN <<"a">>
    ELSE <<SubClassOf, " ", "|", " ", "b">>

\* labels[idx] of a Python list of n elements whose element j is j
ListItem(n, idx) == IF idx < 0 THEN n + idx ELSE idx

\* the list retrieve_sct_context builds from zip(I[0], D[0])
Retrieved(rows, slots) ==
    [p \in 1..Len(slots) |->
        [label |-> ListItem(Len(rows), slots[p].idx),
         context |-> EntryContext(ListItem(Len(rows), slots[p].idx)),
         score |-> slots[p].score]]

\* max_chars, scaled down from 1200
max_chars == 10

\* the [:10] of compress_sct, scaled down from 10
FragmentCap == 2

\* p.split(" | "): the fragments of s from position `from` on, cut at the
\* leftmost occurrences of the separator; an empty text is one empty
\* fragment
RECURSIVE SplitOn(_, _)
SplitOn(s, from) ==
    LET hits == {p \in from..(Len(s) - 2) : SubSeq(s, p, p + 2) = Separator}
    IN IF hits = {} THEN <<SubSeq(s, from, Len(s))>>
       ELSE LET p == CHOOSE p \in hits : \A r \in hits : p <= r
            IN <<SubSeq(s, from, p - 1)>> \o SplitOn(s, p + 3)

\* sep.join(parts)
RECURSIVE JoinWith(_, _)
JoinWith(parts, sep) ==
    IF parts = <<>> THEN <<>>
    ELSE IF Len(parts) = 1 THEN parts[1]
    ELSE parts[1] \o sep \o JoinWith(Tail(parts), sep)

\* "subClassOf" not in p
NoSubClassOf(p) == \A k \in 1..Len(p) : p[k] # SubClassOf

KeptParts_CapFirst(context) ==
    LET all == SplitOn(context, 1)
        capped == SubSeq(all, 1,
                         IF Len(all) < FragmentCap THEN Len(all)
                         ELSE FragmentCap)
    IN SelectSeq(capped, NoSubClassOf)

\* [p for p in r["context"].split(" | ") if "subClassOf" not in p][:10]
KeptParts(context) ==
    LET kept == SelectSeq(SplitOn(context, 1), NoSubClassOf)
    IN SubSeq(kept, 1,
              IF Len(kept) < FragmentCap THEN Len(kept) ELSE FragmentCap)

\* f"[{r['label']}]\n" + " | ".join(parts)
Block(r) ==
    <<"[", LabelText(r.label), "]", "nl">>
    \o JoinWith(KeptParts(r.context), Separator)

\* compress_sct(retrieved): "\n\n".join(merged)[:max_chars]
compress_sct(retrieved) ==
    LET merged == [p \in 1..Len(retrieved) |-> Block(retrieved[p])]
        full == JoinWith(merged, <<"nl", "nl">>)
    IN SubSeq(full, 1, IF Len(full) < max_chars THEN Len(full) ELSE max_chars)

\* what retrieve_binning_chunks can return: at most TOP_K_RAG chunks
RagResults ==
    {<<>>, <<[text |-> 1]>>, <<[text |-> 2], [text |-> 1]>>}

\* "\n".join([f"- {c['text']}" for c in chunks]): one bullet per chunk
RagText(chunks) == [p \in 1..Len(chunks) |-> chunks[p].text]

Part(name) == [part |-> name, text |-> <<>>]

Prompt_EmptyHeading(sct_text, rag, q) ==
    <<Part("rules"), Part("sct_heading"),
      [part |-> "sct_text", text |-> sct_text],
      Part("rag_heading"), [part |-> "rag_text", text |-> rag],
      [part |-> "question", text |-> q], Part("instruction")>>

\* the f-string of fused_reasoning
Prompt(sct_text, rag, q) ==
    <<Part("rules"), Part("sct_heading"),
      [part |-> "sct_text", text |-> sct_text]>>
    \o (IF rag # <<>>
        THEN <<Part("rag_heading"), [part |-> "rag_text", text |-> rag]>>
        ELSE <<>>)
    \o <<[part |-> "question", text |-> q], Part("instruction")>>

\* the questions fused_reasoning is called with
FusionQuestions == Examples

\* the contents the generation service answers a fusion prompt with
FusionAnswers ==
    {Text(1, <<Space>>, <<Space>>),
     Text(WordLimit + MaxExcess, <<Space>>, <<>>)}

\* an exception left fused_reasoning
RaisedResult == [kind |-> "raised", answer |-> <<>>, sct_text |-> <<>>,
                 rag_text |-> <<>>, is_bin |-> FALSE]

\* import SCT_fusion_query: the token is obtained, the records are read,
\* normalized and added to the index
FusionImport ==
    /\ fus_pc = "unloaded"
    /\ sct_file # <<>>
    /\ sct_index' = NormalizedMatrix(sct_file)
    /\ fus_pc' = "ready"
    /\ UNCHANGED <<fus_env, fus_request, prev_search, ui_status>>
    /\ UNCHANGED other_than_fus

\* import SCT_fusion_query with no record in the file: np.vstack([]) raises
FusionImportEmpty ==
    /\ fus_pc = "unloaded"
    /\ sct_file = <<>>
    /\ fus_pc' = "load_failed"
    /\ UNCHANGED <<fus_env, sct_index, fus_request, prev_search, ui_status>>
    /\ UNCHANGED other_than_fus

\* import SCT_fusion_query: get_auth_token raises
FusionImportAuthFail ==
    /\ fus_pc = "unloaded"
    /\ fus_pc' = "load_failed"
    /\ UNCHANGED <<fus_env, sct_index, fus_request, prev_search, ui_status>>
    /\ UNCHANGED other_than_fus

\* get_response (or the interactive shell) calls fused_reasoning(question)
FusedCall ==
    /\ fus_pc = "ready"
    /\ fus_question' \in FusionQuestions
    /\ is_bin' = FALSE
    /\ qv' = <<>>
    /\ sct' = <<>>
    /\ rag_called' = FALSE
    /\ rag_text' = <<>>
    /\ prompt' = <<>>
    /\ fus_result' = NoFusResult
    /\ fus_log' = <<>>
    /\ ui_status' = 0
    /\ fus_pc' = "classify"
    /\ UNCHANGED <<fus_env, sct_index, prev_search>>
    /\ UNCHANGED other_than_fus

FusedClassify_Lookup ==
    /\ fus_pc = "classify"
    /\ is_bin' = is_binning_question(fus_question)
    /\ fus_log' = fus_log \o <<"search", "classify">>
    /\ fus_pc' = "embed"
    /\ UNCHANGED <<fus_env, sct_index, fus_question, qv, sct, rag_called,
                   rag_text, prompt, fus_result, prev_search, ui_status>>
    /\ UNCHANGED other_than_fus

\* Step 1: is_bin = is_binning_question(question)
FusedClassify ==
    /\ fus_pc = "classify"
    /\ is_bin' = is_binning_question(fus_question)
    /\ fus_log' = Append(fus_log, "classify")
    /\ fus_pc' = "embed"
    /\ UNCHANGED <<fus_env, sct_index, fus_question, qv, sct, rag_called,
                   rag_text, prompt, fus_result, prev_search, ui_status>>
    /\ UNCHANGED other_than_fus

\* retrieve_sct_context: the embedding of the question, normalized
EmbedQuestion ==
    /\ fus_pc = "embed"
    /\ \E emb \in QueryVectors : qv' = NormalizedRow(emb)
    /\ fus_log' = Append(fus_log, "embed")
    /\ fus_pc' = "search"
    /\ UNCHANGED <<fus_env, sct_index, fus_question, is_bin, sct, rag_called,
                   rag_text, prompt, fus_result, prev_search, ui_status>>
    /\ UNCHANGED other_than_fus

\* retrieve_sct_context: client.embeddings.create raises
EmbedQuestionFail ==
    /\ fus_pc = "embed"
    /\ fus_log' = Append(fus_log, "embed")
    /\ fus_result' = RaisedResult
    /\ fus_pc' = "raised"
    /\ UNCHANGED <<fus_env, sct_index, fus_question, is_bin, qv, sct,
                   rag_called, rag_text, prompt, prev_search, ui_status>>
    /\ UNCHANGED other_than_fus

SearchIndex_All ==
    /\ fus_pc = "search"
    /\ sct' = Retrieved(sct_index,
                        IndexSearch(sct_index, qv, TOP_K_SCT, tie_rule))
    /\ fus_log' = Append(fus_log, "search")
    /\ fus_pc' = "retrieve_rag"
    /\ UNCHANGED <<fus_env, sct_index, fus_question, is_bin, qv, rag_called,
                   rag_text, prompt, fus_result, prev_search, ui_status>>
    /\ UNCHANGED other_than_fus

\* retrieve_sct_context: index.search(qv, k) and the list of results; then
\* Step 3 of fused_reasoning: `if is_bin`
SearchIndex ==
    /\ fus_pc = "search"
    /\ sct' = Retrieved(sct_index,
                        IndexSearch(sct_index, qv, TOP_K_SCT, tie_rule))
    /\ fus_log' = Append(fus_log, "search")
    /\ fus_pc' = IF is_bin THEN "retrieve_rag" ELSE "generate"
    /\ UNCHANGED <<fus_env, sct_index, fus_question, is_bin, qv, rag_called,
                   rag_text, prompt, fus_result, prev_search, ui_status>>
    /\ UNCHANGED other_than_fus

\* chunks = retrieve_binning_chunks(question, TOP_K_RAG) and rag_text
RetrieveRag ==
    /\ fus_pc = "retrieve_rag"
    /\ \E chunks \in RagResults :
        /\ Len(chunks) <= TOP_K_RAG
        /\ rag_text' = RagText(chunks)
    /\ rag_called' = TRUE
    /\ fus_log' = Append(fus_log, "rag")
    /\ fus_pc' = "generate"
    /\ UNCHANGED <<fus_env, sct_index, fus_question, is_bin, qv, sct, prompt,
                   fus_result, prev_search, ui_status>>
    /\ UNCHANGED other_than_fus

\* retrieve_binning_chunks raises
RetrieveRagFail ==
    /\ fus_pc = "retrieve_rag"
    /\ rag_called' = TRUE
    /\ fus_log' = Append(fus_log, "rag")
    /\ fus_result' = RaisedResult
    /\ fus_pc' = "raised"
    /\ UNCHANGED <<fus_env, sct_index, fus_question, is_bin, qv, sct,
                   rag_text, prompt, prev_search, ui_status>>
    /\ UNCHANGED other_than_fus

\* Step 4: the prompt is built and sent; the stripped content is returned
\* with sct_text, rag_text and is_bin
Generate ==
    /\ fus_pc = "generate"
    /\ prompt' = Prompt(compress_sct(sct), rag_text, fus_question)
    /\ \E content \in FusionAnswers :
        fus_result' = [kind |-> "returned", answer |-> Strip(content),
                       sct_text |-> compress_sct(sct),
                       rag_text |-> rag_text, is_bin |-> is_bin]
    /\ fus_log' = Append(fus_log, "generate")
    /\ fus_pc' = "returned"
    /\ UNCHANGED <<fus_env, sct_index, fus_question, is_bin, qv, sct,
                   rag_called, rag_text, prev_search, ui_status>>
    /\ UNCHANGED other_than_fus

\* Step 4: client.chat.completions.create raises
GenerateFail ==
    /\ fus_pc = "generate"
    /\ prompt' = Prompt(compress_sct(sct), rag_text, fus_question)
    /\ fus_result' = RaisedResult
    /\ fus_log' = Append(fus_log, "generate")
    /\ fus_pc' = "raised"
    /\ UNCHANGED <<fus_env, sct_index, fus_question, is_bin, qv, sct,
                   rag_called, rag_text, prev_search, ui_status>>
    /\ UNCHANGED other_than_fus

\* get_response answers: 200 with the tuple, or 500 from its own
\* `except Exception` when fused_reasoning raised
RouteRespond ==
    /\ fus_pc \in {"returned", "raised"}
    /\ ui_status' = IF fus_pc = "returned" THEN 200 ELSE 500
    /\ prev_search' = IF sct # <<>> THEN [qv |-> qv, results |-> sct]
                      ELSE prev_search
    /\ fus_pc' = "ready"
    /\ UNCHANGED <<fus_env, sct_index, fus_request>>
    /\ UNCHANGED other_than_fus

InitFusion ==
    /\ CmpIdle
    /\ BuilderInit
    /\ n_chunks = 0
    /\ AskIdle
    /\ ClsIdle
    /\ sct_file \in SemanticFiles
    /\ tie_rule \in {"insertion", "reverse"}
    /\ FusionUnloaded
    /\ dr_n = 0
    /\ DrOff

NextFusion ==
    \/ FusionImport
    \/ FusionImportEmpty
    \/ FusionImportAuthFail
    \/ FusedCall
    \/ FusedClassify
    \/ EmbedQuestion
    \/ EmbedQuestionFail
    \/ SearchIndex
    \/ RetrieveRag
    \/ RetrieveRagFail
    \/ Generate
    \/ GenerateFail
    \/ RouteRespond

SpecFusion == InitFusion /\ [][NextFusion]_vars

-----------------------------------------------------------------------------
\* Vocabulary of the fusion properties

\* fused_reasoning has returned its tuple to the caller
FusedReturned == fus_pc = "returned"

\* fused_reasoning ended with an exception that reached its caller
FusedRaised == fus_pc = "raised"

\* the number of entries of the call log that are `what`
LogCount(what) ==
    Cardinality({k \in 1..Len(fus_log) : fus_log[k] = what})

\* the names of the parts of the prompt, in order
PartNames == [p \in 1..Len(prompt) |-> prompt[p].part]

PartsWithoutRag ==
    <<"rules", "sct_heading", "sct_text", "question", "instruction">>

PartsWithRag ==
    <<"rules", "sct_heading", "sct_text", "rag_heading", "rag_text",
      "question", "instruction">>

-----------------------------------------------------------------------------
\* C21: a failure of the embedding service or of the generation service
\* during fused_reasoning never leaves fused_reasoning as an exception and
\* never makes the UI route answer with its own error handler (status 500).
C21_FailureContained ==
    /\ ~FusedRaised
    /\ ui_status # 500

-----------------------------------------------------------------------------
\* C22: every answer fused_reasoning returns has at most WordLimit words,
\* whatever length the generation service produced.
C22_ReturnedAnswerWithinLimit ==
    FusedReturned => WordCount(fus_result.answer) <= WordLimit

-----------------------------------------------------------------------------
\* C23: for every question, a call of fused_reasoning that returns has
\* searched the primary index exactly once, for TOP_K_SCT results; the
\* secondary retriever is called if and only if is_binning_question holds
\* of the question (and in no state of a call when it does not hold); when
\* it does not hold the returned secondary context is empty; the returned
\* flag is the classifier's result.
C23_ConditionalRetrieval ==
    /\ rag_called => is_binning_question(fus_question)
    /\ LogCount("search") <= 1
    /\ FusedReturned =>
        /\ LogCount("search") = 1
        /\ Len(sct) = TOP_K_SCT
        /\ rag_called <=> is_binning_question(fus_question)
        /\ LogCount("rag") = (IF is_binning_question(fus_question)
                              THEN 1 ELSE 0)
        /\ ~is_binning_question(fus_question) => fus_result.rag_text = <<>>
        /\ fus_result.is_bin = is_binning_question(fus_question)

\* a call for a question that is not about binning has returned
C23_Witness ==
    /\ FusedReturned
    /\ ~is_binning_question(fus_question)
    /\ ~rag_called
    /\ Len(sct) = TOP_K_SCT

-----------------------------------------------------------------------------
\* C24: the prompt that is sent has its parts in the order rules, primary
\* context, secondary block, question; the secondary heading is present
\* only when it is followed by a non-empty secondary context, and never when
\* the classifier's result is false; the primary context and the question
\* are those of the call.
C24_PromptOrder ==
    prompt # <<>> =>
        /\ PartNames \in {PartsWithoutRag, PartsWithRag}
        /\ ~is_binning_question(fus_question) => PartNames = PartsWithoutRag
        /\ \A p \in 1..Len(prompt) :
            prompt[p].part = "rag_heading" =>
                /\ p < Len(prompt)
                /\ prompt[p + 1].part = "rag_text"
                /\ prompt[p + 1].text # <<>>
                /\ prompt[p + 1].text = rag_text
        /\ prompt[3].text = compress_sct(sct)
        /\ prompt[Len(prompt) - 1].text = fus_question
        /\ rag_text # <<>> => PartNames = PartsWithRag

\* a prompt was sent for a question that is not about binning
C24_Witness ==
    /\ prompt # <<>>
    /\ ~is_binning_question(fus_question)
    /\ PartNames = PartsWithoutRag
    /\ FusedReturned

-----------------------------------------------------------------------------
\* C29: with at least TOP_K_SCT entries in the index, retrieve_sct_context
\* returns exactly TOP_K_SCT results, each for a distinct entry, by
\* non-increasing score with equal scores in insertion order; the query
\* vector of the call before gives the same results in the same order.
C29_TopKStableOrder ==
    (sct # <<>> /\ Len(sct_index) >= TOP_K_SCT) =>
        /\ Len(sct) = TOP_K_SCT
        /\ \A p, r \in 1..Len(sct) :
            p < r =>
                /\ sct[p].label # sct[r].label
                /\ \/ sct[p].score > sct[r].score
                   \/ /\ sct[p].score = sct[r].score
                      /\ sct[p].label < sct[r].label
        /\ prev_search.qv = qv => prev_search.results = sct

-----------------------------------------------------------------------------
\* build_faiss_index.py: the script that embeds DR_corpus.jsonl in batches
\* and writes DR_faiss.index and DR_ids.npy

\* the largest number of entries of DR_corpus.jsonl
MaxCorpus == 3

\* BATCH_SIZE, scaled down from 128
BATCH_SIZE == 2

\* `for attempt in range(3)`
BatchAttempts == 3

\* the files the fusion module is loaded from while the index is built
SmallSemanticFiles == {f \in SemanticFiles : Len(f) <= 1}

Min(a, b) == IF a < b THEN a ELSE b

\* texts[i:i + BATCH_SIZE], as the positions of the entries in the corpus
Batch(n, at) ==
    [k \in 1..(Min(at + BATCH_SIZE, n) - at) |-> at + k]

\* the next value of the loop over range(0, len(texts), BATCH_SIZE)
AfterBatch(n, at) == IF at + BATCH_SIZE < n THEN "batch" ELSE "check"

\* the script starts: the corpus is loaded, vectors = []
DrStart ==
    /\ dr_pc = "off"
    /\ dr_i' = 0
    /\ dr_attempt' = 0
    /\ dr_vectors' = <<>>
    /\ dr_pc' = IF dr_n > 0 THEN "batch" ELSE "check"
    /\ UNCHANGED <<dr_n, dr_index_file, dr_ids_file>>
    /\ UNCHANGED other_than_dr

\* an attempt on the batch succeeds: vectors.extend(...); break
DrEmbedBatch ==
    /\ dr_pc = "batch"
    /\ dr_attempt < BatchAttempts
    /\ dr_vectors' = dr_vectors \o Batch(dr_n, dr_i)
    /\ dr_i' = dr_i + BATCH_SIZE
    /\ dr_attempt' = 0
    /\ dr_pc' = AfterBatch(dr_n, dr_i)
    /\ UNCHANGED <<dr_n, dr_index_file, dr_ids_file>>
    /\ UNCHANGED other_than_dr

\* an attempt on the batch fails: warning, time.sleep(5)
DrEmbedFail ==
    /\ dr_pc = "batch"
    /\ dr_attempt < BatchAttempts
    /\ dr_attempt' = dr_attempt + 1
    /\ UNCHANGED <<dr_pc, dr_n, dr_i, dr_vectors, dr_index_file,
                   dr_ids_file>>
    /\ UNCHANGED other_than_dr

\* the `else` of the attempt loop: the batch is skipped
DrSkipBatch ==
    /\ dr_pc = "batch"
    /\ dr_attempt = BatchAttempts
    /\ dr_i' = dr_i + BATCH_SIZE
    /\ dr_attempt' = 0
    /\ dr_pc' = AfterBatch(dr_n, dr_i)
    /\ UNCHANGED <<dr_n, dr_vectors, dr_index_file, dr_ids_file>>
    /\ UNCHANGED other_than_dr

\* `if not vectors: raise SystemExit(...)`
DrNoEmbeddings ==
    /\ dr_pc = "check"
    /\ dr_vectors = <<>>
    /\ dr_pc' = "exit"
    /\ UNCHANGED <<dr_n, dr_i, dr_attempt, dr_vectors, dr_index_file,
                   dr_ids_file>>
    /\ UNCHANGED other_than_dr

DrWriteIndex_NoCheck ==
    /\ dr_pc = "check"
    /\ dr_index_file' = [st |-> "ok", rows |-> dr_vectors]
    /\ dr_pc' = "save"
    /\ UNCHANGED <<dr_n, dr_i, dr_attempt, dr_vectors, dr_ids_file>>
    /\ UNCHANGED other_than_dr

\* np.vstack, normalize_L2, index.add, faiss.write_index: the rows of
\* DR_faiss.index are the vectors of the embedded entries, in order
DrWriteIndex ==
    /\ dr_pc = "check"
    /\ dr_vectors # <<>>
    /\ dr_index_file' = [st |-> "ok", rows |-> dr_vectors]
    /\ dr_pc' = "save"
    /\ UNCHANGED <<dr_n, dr_i, dr_attempt, dr_vectors, dr_ids_file>>
    /\ UNCHANGED other_than_dr

\* np.save("DR_ids.npy", np.array(ids)): the ids of the whole corpus
DrSaveIds ==
    /\ dr_pc = "save"
    /\ dr_ids_file' = [st |-> "ok", ids |-> [k \in 1..dr_n |-> k]]
    /\ dr_pc' = "done"
    /\ UNCHANGED <<dr_n, dr_i, dr_attempt, dr_vectors, dr_index_file>>
    /\ UNCHANGED other_than_dr

InitIndexBuild ==
    /\ CmpIdle
    /\ BuilderInit
    /\ n_chunks = 0
    /\ AskIdle
    /\ ClsIdle
    /\ sct_file \in SmallSemanticFiles
    /\ tie_rule = "insertion"
    /\ FusionUnloaded
    /\ dr_n \in 0..MaxCorpus
    /\ DrOff

NextIndexBuild ==
    \/ DrStart
    \/ DrEmbedBatch
    \/ DrEmbedFail
    \/ DrSkipBatch
    \/ DrNoEmbeddings
    \/ DrWriteIndex
    \/ DrSaveIds
    \/ NextFusion

SpecIndexBuild == InitIndexBuild /\ [][NextIndexBuild]_vars

\* the script ended with SystemExit
DrExited == dr_pc = "exit"

\* the fusion module is loaded and serves queries
FusionServing == fus_pc \notin {"unloaded", "load_failed"}

-----------------------------------------------------------------------------
\* C30: when no embedding was generated build_faiss_index never writes
\* DR_faiss.index or DR_ids.npy and never ends normally (it ends with
\* SystemExit), an index file that exists has at least one row, and the
\* fusion module serves queries only with at least one entry in its index:
\* with an empty semantic_conditions.jsonl it never gets loaded.
C30_EmptyIndexFailsFast ==
    /\ dr_vectors = <<>> =>
        /\ dr_index_file = Absent
        /\ dr_ids_file = Absent
        /\ dr_pc \notin {"save", "done"}
    /\ dr_index_file # Absent => dr_index_file.rows # <<>>
    /\ FusionServing => sct_index # <<>>
    /\ sct_file = <<>> => ~FusionServing

\* the script has exited after every batch of a non-empty corpus was
\* skipped, and the import of the fusion module over an empty file failed
C30_Witness ==
    /\ DrExited
    /\ dr_n > 0
    /\ dr_index_file = Absent
    /\ sct_file = <<>>
    /\ fus_pc = "load_failed"

-----------------------------------------------------------------------------
\* C32: the waits of ask after consecutive failed attempts grow by the
\* RETRY_BACKOFF multiplier: the wait after a failure that follows a failure
\* is RETRY_BACKOFF times the wait before it.
C32_ExponentialBackoff ==
    \A j \in 2..Len(waits) :
        waits[j].after = waits[j - 1].after + 1 =>
            waits[j].seconds = RETRY_BACKOFF * waits[j - 1].seconds

-----------------------------------------------------------------------------
\* C34: every call made for a request comes after the evaluation of the
\* classifier, which is evaluated once; when the classifier has been
\* evaluated and nothing else yet, no embedding, no index query, no secondary
\* retrieval and no generation call has been made.
C34_ClassifierFirst ==
    /\ fus_log # <<>> =>
        /\ fus_log[1] = "classify"
        /\ \A k \in 2..Len(fus_log) : fus_log[k] # "classify"
    /\ fus_pc = "embed" =>
        /\ fus_log = <<"classify">>
        /\ qv = <<>>
        /\ sct = <<>>
        /\ ~rag_called
        /\ prompt = <<>>
    /\ fus_pc = "classify" => fus_log = <<>>

\* a call went through the classifier, the embedding, the search, the
\* secondary retrieval and the generation
C34_Witness ==
    /\ FusedReturned
    /\ fus_log = <<"classify", "embed", "search", "rag", "generate">>

\* the over-length answers of the call that were followed by a retry
RetriedOver ==
    {k \in 1..Len(calls) :
        calls[k].outcome = "over" /\ calls[k].attempt < max_retries}

-----------------------------------------------------------------------------
\* C36: after an attempt of ask that failed with an exception the next
\* attempt sends the messages of the failed one; while ask waits, the
\* history is the one the failed attempt sent; the history is the two
\* initial messages plus two messages for each over-length answer that was
\* followed by a retry.
C36_FailureLeavesHistory ==
    /\ \A n \in 1..Len(calls) :
        (n < Len(calls) /\ calls[n].outcome = "error") =>
            calls[n + 1].messages = calls[n].messages
    /\ ask_pc = "wait" =>
        /\ LastCall.outcome = "error"
        /\ messages = LastCall.messages
    /\ ask_pc # "idle" =>
        Len(messages) = Len(InitialMessages) + 2 * Cardinality(RetriedOver)

\* an over-length answer, then a failure, then a third attempt that sends
\* the four messages of the second
C36_Witness ==
    /\ Len(calls) = 3
    /\ calls[1].outcome = "over"
    /\ calls[2].outcome = "error"
    /\ Len(calls[3].messages) = 4
    /\ calls[3].messages = calls[2].messages

-----------------------------------------------------------------------------
\* C37: when build_faiss_index has saved DR_ids.npy, it holds as many ids as
\* DR_faiss.index holds vectors and id number p is the id of the corpus
\* entry whose vector is row p, whatever the batches' attempts gave.
C37_IdsAlignedWithIndex ==
    dr_ids_file # Absent =>
        /\ dr_index_file # Absent
        /\ Len(dr_ids_file.ids) = Len(dr_index_file.rows)
        /\ \A p \in 1..Len(dr_ids_file.ids) :
            dr_ids_file.ids[p] = dr_index_file.rows[p]

-----------------------------------------------------------------------------
\* C38: with fewer than TOP_K_SCT entries in the index, the results of
\* retrieve_sct_context are for distinct stored entries, no more than the
\* index holds, each with a score between -1 and 1.
C38_NoPaddingReturned ==
    (sct # <<>> /\ Len(sct_index) < TOP_K_SCT) =>
        /\ Len(sct) <= Len(sct_index)
        /\ \A p, r \in 1..Len(sct) : p < r => sct[p].label # sct[r].label
        /\ \A p \in 1..Len(sct) : sct[p].score \in -1..1

-----------------------------------------------------------------------------
\* compress_sct as a function of its argument

\* the most pieces a context is put together from
MaxCtxPieces == 5

\* the pieces contexts are put together from
CtxPieces == {<<"a">>, <<SubClassOf>>, Separator, <<"|">>}

\* the context texts of the retrieved results
Contexts ==
    {Flatten(ps) : ps \in UNION {[1..m -> CtxPieces] : m \in 0..MaxCtxPieces}}

\* the context texts of a second result
SecondContexts ==
    {<<>>, <<"a">>, <<SubClassOf, " ", "|", " ", "a", "|", "a">>}

Result(label, context) == [label |-> label, context |-> context, score |-> 0]

\* the lists compress_sct is called with
RetrievedLists ==
    {<<>>}
    \cup {<<Result(0, c)>> : c \in Contexts}
    \cup {<<Result(1, c), Result(0, d)>> : c \in Contexts,
                                            d \in SecondContexts}

\* sct_text = compress_sct(sct)
CompressCall ==
    /\ cmp_pc = "idle"
    /\ \E retrieved \in RetrievedLists :
        /\ cmp_retrieved' = retrieved
        /\ cmp_out' = compress_sct(retrieved)
    /\ cmp_pc' = "done"
    /\ UNCHANGED other_than_cmp

InitCompress == Init /\ n_chunks = 0

NextCompress == CompressCall

SpecCompress == InitCompress /\ [][NextCompress]_vars

\* compress_sct has returned
Compressed == cmp_pc = "done"

\* the symbols of a text
Range(s) == {s[k] : k \in 1..Len(s)}

\* the positions of the fragments of a context that do not contain
\* "subClassOf" and have fewer than FragmentCap such fragments before them
KeptPositions(context) ==
    LET parts == SplitOn(context, 1)
        clean == {k \in 1..Len(parts) : SubClassOf \notin Range(parts[k])}
    IN {k \in clean :
           Cardinality({m \in clean : m < k}) < FragmentCap}

\* the fragments at the positions of a set, in order, joined by " | "
RECURSIVE JoinedAt(_, _)
JoinedAt(parts, ks) ==
    IF ks = {} THEN <<>>
    ELSE LET k == CHOOSE k \in ks : \A m \in ks : k <= m
         IN IF ks = {k} THEN parts[k]
            ELSE parts[k] \o Separator \o JoinedAt(parts, ks \ {k})

\* the full merge: each result as its label in brackets, a newline and its
\* kept fragments, the results separated by an empty line
RECURSIVE FullMerge(_)
FullMerge(retrieved) ==
    IF retrieved = <<>> THEN <<>>
    ELSE LET r == Head(retrieved)
             block == <<"[", LabelText(r.label), "]", "nl">>
                      \o JoinedAt(SplitOn(r.context, 1),
                                  KeptPositions(r.context))
         IN IF Len(retrieved) = 1 THEN block
            ELSE block \o <<"nl", "nl">> \o FullMerge(Tail(retrieved))

IsPrefix(s, t) == Len(s) <= Len(t) /\ s = SubSeq(t, 1, Len(s))

-----------------------------------------------------------------------------
\* C35: for every list of retrieved results, what compress_sct returns has
\* at most max_chars characters, is the prefix of that length (or the whole)
\* of the full merge, in which each result is its label in brackets followed
\* by at most its first FragmentCap fragments without "subClassOf", in
\* retrieval order, and contains no "subClassOf".
C35_CompressedPrefix ==
    Compressed =>
        /\ Len(cmp_out) <= max_chars
        /\ IsPrefix(cmp_out, FullMerge(cmp_retrieved))
        /\ \/ Len(cmp_out) = max_chars
           \/ cmp_out = FullMerge(cmp_retrieved)
        /\ SubClassOf \notin Range(cmp_out)

\* a context with a "subClassOf" fragment before more clean fragments than
\* the cap, in a list of two results whose merge is cut
C35_Witness ==
    /\ Compressed
    /\ Len(cmp_retrieved) = 2
    /\ Len(SplitOn(cmp_retrieved[1].context, 1)) > FragmentCap
    /\ \E k \in 1..FragmentCap :
        SubClassOf \in Range(SplitOn(cmp_retrieved[1].context, 1)[k])
    /\ Len(FullMerge(cmp_retrieved)) > max_chars
    /\ Len(cmp_out) = max_chars

-----------------------------------------------------------------------------
\* get_response: the parsing of one line of followup_text

\* the longest line
MaxLineLen == 5

\* the characters of the lines
LineChars == {"1", "0", ".", ")", " ", "a"}

\* the lines of followup_text
Lines == UNION {[1..n -> LineChars] : n \in 0..MaxLineLen}

\* the characters f"{i}" for i in range(1, 10)
PrefixDigits == {"1", "2", "3", "4", "5", "6", "7", "8", "9"}

\* line.strip()
StripLine(s) ==
    LET inked == {k \in 1..Len(s) : s[k] # " "}
    IN IF inked = {} THEN <<>>
       ELSE SubSeq(s, CHOOSE k \in inked : \A m \in inked : k <= m,
                      CHOOSE k \in inked : \A m \in inked : k >= m)

\* s.split(ch, 1)[-1]: what follows the first ch, or s when it has none
AfterFirst(s, ch) ==
    LET hits == {k \in 1..Len(s) : s[k] = ch}
    IN IF hits = {} THEN s
       ELSE SubSeq(s, (CHOOSE k \in hits : \A m \in hits : k <= m) + 1,
                      Len(s))

\* line.startswith(f"{i}.") or line.startswith(f"{i})") for an i in 1..9
HasNumberPrefix(line) ==
    /\ Len(line) >= 2
    /\ line[1] \in PrefixDigits
    /\ line[2] \in {".", ")"}

\* the body of the loop over the lines: what is appended to followup_list
FollowupItems(raw) ==
    LET line == StripLine(raw)
        question == StripLine(AfterFirst(AfterFirst(line, "."), ")"))
    IN IF line # <<>> /\ HasNumberPrefix(line) /\ question # <<>>
       THEN <<question>>
       ELSE <<>>

\* one line of followup_text is parsed
ParseLine ==
    /\ fu_pc = "idle"
    /\ \E raw \in Lines :
        /\ fu_line' = raw
        /\ fu_list' = FollowupItems(raw)
    /\ fu_pc' = "parsed"
    /\ UNCHANGED other_than_fu

InitFollowup == Init /\ n_chunks = 0

NextFollowup == ParseLine

SpecFollowup == InitFollowup /\ [][NextFollowup]_vars

\* the line has been parsed
Parsed == fu_pc = "parsed"

\* the line has the form '<digit>. <text>' or '<digit>) <text>'
IsNumbered(line) ==
    /\ HasNumberPrefix(line)
    /\ Len(line) >= 4
    /\ line[3] = " "

-----------------------------------------------------------------------------
\* C31: a line '<digit>. <text>' or '<digit>) <text>' with a digit from 1 to
\* 9 yields exactly its text, trimmed, also when the text contains '.' or
\* ')'; a line without such a numeric prefix yields no item.
C31_ParserKeepsText ==
    Parsed =>
        LET line == StripLine(fu_line)
        IN /\ IsNumbered(line) =>
               fu_list = <<StripLine(SubSeq(line, 3, Len(line)))>>
           /\ ~HasNumberPrefix(line) => fu_list = <<>>

-----------------------------------------------------------------------------
\* SCT_semantic_graph.py: update detection, confirmation and the embedding
\* loop that appends to semantic_conditions.jsonl

\* the number of entities of the ontology; entity e has label e
MaxSgEntities == 3

\* the number of versions of DigitalReference.ttl published on GitHub
MaxTtl == 2

\* `entities`, in the order of the loop
SgEntities == 1..MaxSgEntities

\* the run is over: it ended, or it was interrupted
SgStopped ==
    {"off", "exit_unchanged", "exit_declined", "finished", "killed",
     "download_failed"}

\* a new version of the ontology is published
TtlPublish ==
    /\ sg_remote < MaxTtl
    /\ sg_remote' = sg_remote + 1
    /\ UNCHANGED <<sg_pc, sg_hash, sg_file, sg_done, sg_k, sg_tried>>
    /\ UNCHANGED other_than_sg

\* a run starts and download_ttl raises
SgDownloadFail ==
    /\ sg_pc \in SgStopped
    /\ sg_pc' = "download_failed"
    /\ UNCHANGED <<sg_remote, sg_hash, sg_file, sg_done, sg_k, sg_tried>>
    /\ UNCHANGED other_than_sg

\* a run starts; ttl_updated finds no hash file or another hash, writes the
\* new hash and returns True
SgDetectUpdated ==
    /\ sg_pc \in SgStopped
    /\ sg_hash # sg_remote
    /\ sg_hash' = sg_remote
    /\ sg_tried' = {}
    /\ sg_pc' = "confirm"
    /\ UNCHANGED <<sg_remote, sg_file, sg_done, sg_k>>
    /\ UNCHANGED other_than_sg

\* a run starts; ttl_updated finds the stored hash and returns False:
\* exit(0)
SgDetectUnchanged ==
    /\ sg_pc \in SgStopped
    /\ sg_hash = sg_remote
    /\ sg_pc' = "exit_unchanged"
    /\ UNCHANGED <<sg_remote, sg_hash, sg_file, sg_done, sg_k, sg_tried>>
    /\ UNCHANGED other_than_sg

\* the answer at the prompt is not "y": exit(0)
SgDecline ==
    /\ sg_pc = "confirm"
    /\ sg_pc' = "exit_declined"
    /\ UNCHANGED <<sg_remote, sg_hash, sg_file, sg_done, sg_k, sg_tried>>
    /\ UNCHANGED other_than_sg

\* the answer is "y": the graph is parsed and done_labels is read from the
\* output file
SgConfirm ==
    /\ sg_pc = "confirm"
    /\ sg_done' = sg_file
    /\ sg_k' = 1
    /\ sg_pc' = "loop"
    /\ UNCHANGED <<sg_remote, sg_hash, sg_file, sg_tried>>
    /\ UNCHANGED other_than_sg

\* `if label in done_labels: continue`
SgSkipDone ==
    /\ sg_pc = "loop"
    /\ sg_k \in SgEntities
    /\ sg_k \in sg_done
    /\ sg_k' = sg_k + 1
    /\ UNCHANGED <<sg_pc, sg_remote, sg_hash, sg_file, sg_done, sg_tried>>
    /\ UNCHANGED other_than_sg

\* safe_embed returns an embedding: the record is written and flushed
SgEmbed ==
    /\ sg_pc = "loop"
    /\ sg_k \in SgEntities
    /\ sg_k \notin sg_done
    /\ sg_file' = sg_file \cup {sg_k}
    /\ sg_done' = sg_done \cup {sg_k}
    /\ sg_tried' = sg_tried \cup {sg_k}
    /\ sg_k' = sg_k + 1
    /\ UNCHANGED <<sg_pc, sg_remote, sg_hash>>
    /\ UNCHANGED other_than_sg

\* safe_embed returns None after MAX_RETRIES failures: the entity is
\* skipped
SgEmbedFail ==
    /\ sg_pc = "loop"
    /\ sg_k \in SgEntities
    /\ sg_k \notin sg_done
    /\ sg_tried' = sg_tried \cup {sg_k}
    /\ sg_k' = sg_k + 1
    /\ UNCHANGED <<sg_pc, sg_remote, sg_hash, sg_file, sg_done>>
    /\ UNCHANGED other_than_sg

\* the loop is over
SgFinish ==
    /\ sg_pc = "loop"
    /\ sg_k \notin SgEntities
    /\ sg_pc' = "finished"
    /\ UNCHANGED <<sg_remote, sg_hash, sg_file, sg_done, sg_k, sg_tried>>
    /\ UNCHANGED other_than_sg

\* the run is interrupted at the prompt or in the loop
SgInterrupt ==
    /\ sg_pc \in {"confirm", "loop"}
    /\ sg_pc' = "killed"
    /\ UNCHANGED <<sg_remote, sg_hash, sg_file, sg_done, sg_k, sg_tried>>
    /\ UNCHANGED other_than_sg

InitSemantic == Init /\ n_chunks = 0

NextSemantic ==
    \/ TtlPublish
    \/ SgDownloadFail
    \/ SgDetectUpdated
    \/ SgDetectUnchanged
    \/ SgDecline
    \/ SgConfirm
    \/ SgSkipDone
    \/ SgEmbed
    \/ SgEmbedFail
    \/ SgFinish
    \/ SgInterrupt

SpecSemantic == InitSemantic /\ [][NextSemantic]_vars

\* the entities without a record for which no embedding was attempted since
\* the update was detected
SgNeverTried == {e \in SgEntities : e \notin sg_file /\ e \notin sg_tried}

-----------------------------------------------------------------------------
\* C33: a run of SCT_semantic_graph never ends as "nothing to regenerate"
\* while entities are left without a record that no run has tried to embed
\* since the update was detected: after an interrupted or declined run the
\* next run goes on with the remaining entities.
C33_InterruptedRunResumes ==
    sg_pc = "exit_unchanged" => SgNeverTried = {}
====
